---- MODULE Spec2Model ----
(***************************************************************************)
(* Model of the fusionlab InnoDB adapter: the row reader binding           *)
(* (crates/fusionlab-ibd/src/lib.rs, ffi.rs) and the scan stream built on  *)
(* it (crates/fusionlab-core/src/ibd_provider.rs).                         *)
(*                                                                         *)
(* The native library is the environment: every native call returns one of *)
(* a small set of result codes, chosen nondeterministically.  A pull of a  *)
(* stream is one action; it ranges over the outcomes of the native calls   *)
(* it makes.                                                               *)
(***************************************************************************)
EXTENDS Integers, Sequences, FiniteSets, TLC

\* ---------------------------------------------------------------- bounds

\* Rows a native cursor can return before it must stop returning Success.
MaxRows == 5

\* Rows per batch.  The source sets 1024 (DEFAULT_BATCH_SIZE); the model
\* scales it down so that several batches fit in MaxRows.
MaxBatch == 2

\* Pulls the consumer makes, over all its streams.
MaxPulls == 4

\* Calls of IbdReader::new a thread makes.
MaxNews == 2

\* The threads of the process.
Threads == {"t1", "t2"}

\* The streams a consumer may start on the provider (two executions of the
\* same plan).
Streams == {"s1", "s2"}

\* ------------------------------------------------------------ ffi.rs

\* Result codes the native calls may return: Success, EndOfStream,
\* ErrorFileRead, ErrorInvalidFormat and a code the binding does not know.
NativeCodes == {0, 1, -3, -5, 42}

\* impl From<i32> for IbdResult
IbdResultFrom(code) ==
  CASE code = 0 -> "Success"
    [] code = 1 -> "EndOfStream"
    [] code = -1 -> "ErrorInvalidParam"
    [] code = -2 -> "ErrorFileNotFound"
    [] code = -3 -> "ErrorFileRead"
    [] code = -4 -> "ErrorFileWrite"
    [] code = -5 -> "ErrorInvalidFormat"
    [] code = -6 -> "ErrorCompression"
    [] code = -7 -> "ErrorDecompression"
    [] code = -8 -> "ErrorEncryption"
    [] code = -9 -> "ErrorDecryption"
    [] code = -10 -> "ErrorMemory"
    [] code = -11 -> "ErrorNotImplemented"
    [] code = -12 -> "ErrorKeyring"
    [] OTHER -> "ErrorUnknown"

\* Column type codes ibd_get_column_info may store: the thirteen codes of
\* enum IbdColumnType and a code that is none of them.
NativeTypeCodes == (0..11) \cup {99, 50}

\* impl From<i32> for IbdColumnType
IbdColumnTypeFrom(code) ==
  CASE code = 0 -> "Null"
    [] code = 1 -> "Int"
    [] code = 2 -> "UInt"
    [] code = 3 -> "Float"
    [] code = 4 -> "Double"
    [] code = 5 -> "String"
    [] code = 6 -> "Binary"
    [] code = 7 -> "DateTime"
    [] code = 8 -> "Date"
    [] code = 9 -> "Time"
    [] code = 10 -> "Timestamp"
    [] code = 11 -> "Decimal"
    [] code = 99 -> "Internal"
    [] OTHER -> "Null"

\* ------------------------------------------------------------ lib.rs

\* A value of enum IbdError: its variant and the message it carries ("" for
\* the variants without a payload).
Err(kind, msg) == [kind |-> kind, msg |-> msg]

NoErr == Err("", "")

\* The variants of IbdError that carry a message, and those that do not.
IbdErrorWithMsg ==
  {"FileNotFound", "FileRead", "FileWrite", "InvalidFormat", "Library", "InvalidPath"}

IbdErrorPlain ==
  {"InvalidParam", "Compression", "Decompression", "Encryption", "Decryption",
   "Memory", "NotImplemented", "Keyring", "NoMoreRows"}

\* ibd_error_from_result: the errors the call may produce.  Every arm of the
\* match yields one error.  The match has no arm for EndOfStream: which
\* IbdError comes out for it is not fixed by the source, so any is possible.
ibd_error_from_result(result, msg) ==
  CASE result = "Success" -> {Err("Library", "Unexpected success")}
    [] result = "ErrorInvalidParam" -> {Err("InvalidParam", "")}
    [] result = "ErrorFileNotFound" -> {Err("FileNotFound", msg)}
    [] result = "ErrorFileRead" -> {Err("FileRead", msg)}
    [] result = "ErrorFileWrite" -> {Err("FileWrite", msg)}
    [] result = "ErrorInvalidFormat" -> {Err("InvalidFormat", msg)}
    [] result = "ErrorCompression" -> {Err("Compression", "")}
    [] result = "ErrorDecompression" -> {Err("Decompression", "")}
    [] result = "ErrorEncryption" -> {Err("Encryption", "")}
    [] result = "ErrorDecryption" -> {Err("Decryption", "")}
    [] result = "ErrorMemory" -> {Err("Memory", "")}
    [] result = "ErrorNotImplemented" -> {Err("NotImplemented", "")}
    [] result = "ErrorKeyring" -> {Err("Keyring", "")}
    [] result = "ErrorUnknown" -> {Err("Library", msg)}
    [] OTHER -> {Err(k, msg) : k \in IbdErrorWithMsg} \cup {Err(k, "") : k \in IbdErrorPlain}

\* What the native library does in one iteration of the read loop:
\*   code     the result of ibd_read_row
\*   rowNull  the row handle it stored is null
\*   cellCode the result of ibd_row_get_column for the first projected column
\*            of that row (the other columns of the row succeed)
Outcome(code, rowNull, cellCode) ==
  [code |-> code, rowNull |-> rowNull, cellCode |-> cellCode]

NoOutcome == Outcome(99, FALSE, 0)

ReadOutcomes ==
  {Outcome(c, FALSE, 0) : c \in NativeCodes}
    \cup {Outcome(0, TRUE, 0), Outcome(0, FALSE, -3)}

\* A result of next_row / get: tag "row", "none" or "err".
Res(tag, err) == [tag |-> tag, err |-> err]

\* IbdTable::next_row, given what ibd_read_row did.
next_row(o) ==
  LET ibd_result == IbdResultFrom(o.code)
  IN IF ibd_result # "Success"
       THEN IF ibd_result = "ErrorFileRead"
              THEN {Res("none", NoErr)}
              ELSE {Res("err", e) :
                      e \in ibd_error_from_result(ibd_result, "Failed to read row")}
       ELSE IF o.rowNull
              THEN {Res("err",
                        Err("Library", "Reader returned success with null row handle"))}
              ELSE {Res("row", NoErr)}

\* IbdRow::get(index) on a row of column_count columns, given the result
\* code of ibd_row_get_column.  calls: native calls made (0 or 1).
IbdRow_get(index, column_count, cellCode) ==
  IF index >= column_count
    THEN {[tag |-> "err", err |-> Err("InvalidParam", ""), calls |-> 0]}
    ELSE LET ibd_result == IbdResultFrom(cellCode)
         IN IF ibd_result # "Success"
              THEN {[tag |-> "err", err |-> e, calls |-> 1] :
                      e \in ibd_error_from_result(ibd_result,
                                                  "Failed to get column value")}
              ELSE {[tag |-> "value", err |-> NoErr, calls |-> 1]}

\* impl From<IbdColumnType> for ColumnType
ColumnTypeFrom(t) ==
  CASE t = "Null" -> "Null"
    [] t = "Int" -> "Int"
    [] t = "UInt" -> "UInt"
    [] t = "Float" -> "Float"
    [] t = "Double" -> "Double"
    [] t = "String" -> "String"
    [] t = "Binary" -> "Binary"
    [] t = "DateTime" -> "DateTime"
    [] t = "Date" -> "Date"
    [] t = "Time" -> "Time"
    [] t = "Timestamp" -> "Timestamp"
    [] t = "Decimal" -> "Decimal"
    [] t = "Internal" -> "Internal"

\* The Display of an IbdError (the #[error] attributes).
IbdError_to_string(e) ==
  CASE e.kind = "InvalidParam" -> "Invalid parameter"
    [] e.kind = "FileNotFound" -> "File not found: " \o e.msg
    [] e.kind = "FileRead" -> "File read error: " \o e.msg
    [] e.kind = "FileWrite" -> "File write error: " \o e.msg
    [] e.kind = "InvalidFormat" -> "Invalid file format: " \o e.msg
    [] e.kind = "Compression" -> "Compression error"
    [] e.kind = "Decompression" -> "Decompression error"
    [] e.kind = "Encryption" -> "Encryption error"
    [] e.kind = "Decryption" -> "Decryption error"
    [] e.kind = "Memory" -> "Memory allocation error"
    [] e.kind = "NotImplemented" -> "Not implemented"
    [] e.kind = "Keyring" -> "Keyring error"
    [] e.kind = "Library" -> "Library error: " \o e.msg
    [] e.kind = "NoMoreRows" -> "No more rows"
    [] e.kind = "InvalidPath" -> "Invalid path: " \o e.msg

\* What the native library answers while a table is opened:
\*   readerNull  ibd_reader_create returned a null handle
\*   open        the result of ibd_open_table
\*   handleNull  the table handle it stored is null
\*   info        the result of ibd_get_table_info
\*   table_name  the name it stored
\*   cols        per column, in catalog order: the result code of
\*               ibd_get_column_info and the name and type code it stored
NativeAnswer(readerNull, open, handleNull, info, table_name, cols) ==
  [readerNull |-> readerNull, open |-> open, handleNull |-> handleNull,
   info |-> info, table_name |-> table_name, cols |-> cols]

NativeColumn(code, name, col_type) ==
  [code |-> code, name |-> name, col_type |-> col_type]

NoAnswer == NativeAnswer(FALSE, 99, FALSE, 0, "", <<>>)

\* The decimal text of a column index, as format!("{}", i) gives it.
IndexText(i) ==
  CASE i = 0 -> "0" [] i = 1 -> "1" [] i = 2 -> "2" [] i = 3 -> "3"
    [] i = 4 -> "4" [] i = 5 -> "5" [] i = 6 -> "6" [] OTHER -> "7"

\* A mutation of read_columns: a column whose ibd_get_column_info fails is
\* left out and the loop goes on.
RECURSIVE read_columns_lenient(_, _, _)
read_columns_lenient(cols, i, columns) ==
  IF i >= Len(cols)
    THEN {[tag |-> "ok", err |-> NoErr, columns |-> columns]}
    ELSE IF IbdResultFrom(cols[i + 1].code) # "Success"
           THEN read_columns_lenient(cols, i + 1, columns)
           ELSE read_columns_lenient(
                  cols, i + 1,
                  Append(columns,
                         [name |-> cols[i + 1].name,
                          col_type |->
                            ColumnTypeFrom(IbdColumnTypeFrom(cols[i + 1].col_type))]))

\* The column loop of IbdReader::open_table from column i (0-based) on:
\* the ColumnInfo list, or the error of the first ibd_get_column_info that
\* fails.  A ColumnInfo is its name and type; its index is its position.
RECURSIVE read_columns(_, _, _)
read_columns(cols, i, columns) ==
  IF i >= Len(cols)
    THEN {[tag |-> "ok", err |-> NoErr, columns |-> columns]}
    ELSE LET ibd_col_result == IbdResultFrom(cols[i + 1].code)
         IN IF ibd_col_result # "Success"
              THEN {[tag |-> "err", err |-> e, columns |-> <<>>] :
                      e \in ibd_error_from_result(
                               ibd_col_result,
                               "Failed to read column info for index " \o IndexText(i))}
              ELSE read_columns(
                     cols, i + 1,
                     Append(columns,
                            [name |-> cols[i + 1].name,
                             col_type |->
                               ColumnTypeFrom(IbdColumnTypeFrom(cols[i + 1].col_type))]))

\* IbdReader::open_table, given the native answer: the table (its name and
\* columns) or the error.  opened tells that ibd_open_table stored a handle;
\* when the call fails after that, the handle was closed by ibd_close_table.
open_table_result(ans) ==
  LET ibd_result == IbdResultFrom(ans.open)
      ibd_table_info == IbdResultFrom(ans.info)
      fail(e, opened) ==
        [tag |-> "err", err |-> e, opened |-> opened, table_name |-> "",
         columns |-> <<>>]
  IN IF ibd_result # "Success"
       THEN {fail(e, FALSE) : e \in ibd_error_from_result(ibd_result, "last error")}
       ELSE IF ans.handleNull
         THEN {fail(Err("Memory", ""), FALSE)}
         ELSE IF ibd_table_info # "Success"
           THEN {fail(e, TRUE) :
                   e \in ibd_error_from_result(ibd_table_info,
                                               "Failed to read table info")}
           ELSE { IF c.tag = "err"
                    THEN fail(c.err, TRUE)
                    ELSE [tag |-> "table", err |-> NoErr, opened |-> TRUE,
                          table_name |-> ans.table_name, columns |-> c.columns] :
                  c \in read_columns(ans.cols, 0, <<>>) }

\* --------------------------------------------------- ibd_provider.rs

\* const DEFAULT_BATCH_SIZE (1024 in the source, scaled to MaxBatch here).
DEFAULT_BATCH_SIZE == MaxBatch

\* The column catalog the native library reports for the table.
Catalog ==
  << [name |-> "DB_TRX_ID", col_type |-> "Internal"],
     [name |-> "id", col_type |-> "Int"],
     [name |-> "name", col_type |-> "String"] >>

\* IbdTable::column_count, also what ibd_row_column_count reports for a row:
\* the native row data leaves the internal columns out.
RECURSIVE column_count(_)
column_count(columns) ==
  IF columns = <<>>
    THEN 0
    ELSE (IF Head(columns).col_type # "Internal" THEN 1 ELSE 0)
           + column_count(Tail(columns))

\* The native answer for the table of Catalog: every call succeeds.
NativeCatalog ==
  << NativeColumn(0, "DB_TRX_ID", 99), NativeColumn(0, "id", 1),
     NativeColumn(0, "name", 5) >>

\* A mutation of ibd_to_arrow_type: UInt is widened to Int64.
ibd_to_arrow_type_signed(ibd_type) ==
  CASE ibd_type \in {"Int", "UInt"} -> "Int64"
    [] ibd_type \in {"Float", "Double"} -> "Float64"
    [] OTHER -> "Utf8"

\* fn ibd_to_arrow_type
ibd_to_arrow_type(ibd_type) ==
  CASE ibd_type = "Int" -> "Int64"
    [] ibd_type = "UInt" -> "UInt64"
    [] ibd_type \in {"Float", "Double"} -> "Float64"
    [] ibd_type \in {"String", "Binary", "DateTime", "Timestamp", "Date", "Time",
                     "Decimal", "Null", "Internal"} -> "Utf8"

\* Field::new(name, data_type, nullable)
Field(name, data_type, nullable) ==
  [name |-> name, data_type |-> data_type, nullable |-> nullable]

\* A mutation of build_fields: the internal columns are not skipped.
RECURSIVE build_fields_all(_, _)
build_fields_all(columns, fields) ==
  IF columns = <<>>
    THEN fields
    ELSE build_fields_all(
           Tail(columns),
           Append(fields,
                  Field(Head(columns).name,
                        ibd_to_arrow_type(Head(columns).col_type), TRUE)))

\* The loop of IbdTableProvider::try_new that builds fields: one nullable
\* field per non-internal column, in catalog order.
RECURSIVE build_fields(_, _)
build_fields(columns, fields) ==
  IF columns = <<>>
    THEN fields
    ELSE LET col == Head(columns)
         IN IF col.col_type = "Internal"
              THEN build_fields(Tail(columns), fields)
              ELSE build_fields(
                     Tail(columns),
                     Append(fields,
                            Field(col.name, ibd_to_arrow_type(col.col_type), TRUE)))

\* Mutations of build_column_mapping: row_idx is never incremented; row_idx
\* is incremented for the internal columns too (the catalog position).
RECURSIVE build_column_mapping_stuck(_, _, _)
build_column_mapping_stuck(columns, column_mapping, row_idx) ==
  IF columns = <<>>
    THEN column_mapping
    ELSE LET col == Head(columns)
         IN IF col.col_type = "Internal"
              THEN build_column_mapping_stuck(Tail(columns), column_mapping, row_idx)
              ELSE build_column_mapping_stuck(
                     Tail(columns),
                     Append(column_mapping,
                            [name |-> col.name, col_type |-> col.col_type,
                             ibd_index |-> row_idx]),
                     row_idx)

RECURSIVE build_column_mapping_sdi(_, _, _)
build_column_mapping_sdi(columns, column_mapping, row_idx) ==
  IF columns = <<>>
    THEN column_mapping
    ELSE LET col == Head(columns)
         IN IF col.col_type = "Internal"
              THEN build_column_mapping_sdi(Tail(columns), column_mapping, row_idx + 1)
              ELSE build_column_mapping_sdi(
                     Tail(columns),
                     Append(column_mapping,
                            [name |-> col.name, col_type |-> col.col_type,
                             ibd_index |-> row_idx]),
                     row_idx + 1)

\* The loop of IbdTableProvider::try_new that builds column_mapping:
\* (name, type, ibd_index) per non-internal column, ibd_index counting the
\* non-internal columns only.
RECURSIVE build_column_mapping(_, _, _)
build_column_mapping(columns, column_mapping, row_idx) ==
  IF columns = <<>>
    THEN column_mapping
    ELSE LET col == Head(columns)
         IN IF col.col_type = "Internal"
              THEN build_column_mapping(Tail(columns), column_mapping, row_idx)
              ELSE build_column_mapping(
                     Tail(columns),
                     Append(column_mapping,
                            [name |-> col.name, col_type |-> col.col_type,
                             ibd_index |-> row_idx]),
                     row_idx + 1)

VARIABLES
  provider,  \* IbdTableProvider: its state and fields, see Provider below
  readers,   \* native reader contexts created so far: [destroyed]
  tables,    \* native table handles opened so far (the handle is the index)
  nopen,     \* calls of ibd_open_table made so far
  stream,    \* per stream: the consumer's stream object and its IbdStreamState
  out,       \* per stream: what each pull returned, in order (kind and rows)
  lastPull,  \* the latest pull: its stream, the last native outcome, its result
  call,      \* the latest call of a conversion: its function, input and output
  lib,       \* the binding's statics: INIT (a Once) and INIT_RESULT
  thread     \* per thread: where it is in IbdReader::new or in a poll

vars ==
  <<provider, readers, tables, nopen, stream, out, lastPull, call, lib, thread>>

\* A native table handle, as ibd_open_table returns it: a cursor before the
\* first row.  owner: "schema" or the stream that opened it.  closes counts
\* ibd_close_table calls, reads ibd_read_row calls, cells ibd_row_get_column
\* calls; lateClose tells that ibd_close_table ran after the reader context
\* was destroyed.  seen tells what the row reader binding has reported on it
\* so far: "" (rows only), "eod" (next_row returned None) or "err" (next_row
\* or get returned an error); pullStart is the cursor at the start of the
\* latest read_next_batch that read from it.  handles counts the row handles
\* ibd_read_row stored in an IbdRow, frees the ibd_free_row calls on them and
\* live those not yet freed; maxLive is the largest number that were live at
\* once, liveAtRead the largest number live when ibd_read_row was called,
\* liveAtClose the number live when ibd_close_table was called.
NewTable(owner, reader) ==
  [owner |-> owner, reader |-> reader, cursor |-> 0, closes |-> 0,
   lateClose |-> FALSE, reads |-> 0, cells |-> 0, seen |-> "", pullStart |-> 0,
   handles |-> 0, frees |-> 0, live |-> 0, maxLive |-> 0, liveAtRead |-> 0,
   liveAtClose |-> 0]

\* What a pull returned: kind "batch" (rows: the row numbers in the batch),
\* "none" or "err".  out keeps kind and rows of each (Logged).
Batch(rows) == [kind |-> "batch", rows |-> rows, err |-> NoErr]

None == [kind |-> "none", rows |-> <<>>, err |-> NoErr]

Failed(e) == [kind |-> "err", rows |-> <<>>, err |-> e]

Logged(result) == [kind |-> result.kind, rows |-> result.rows]

NoStream ==
  [exists |-> "none", held |-> FALSE, done |-> FALSE, table |-> 0, reader |-> 0,
   projection |-> [some |-> FALSE, indices |-> <<>>], schema |-> <<>>,
   projected_columns |-> <<>>, batch_size |-> 0,
   filters |-> <<>>, limit |-> [some |-> FALSE, n |-> 0],
   returned |-> [variant |-> "", source |-> NoErr], native |-> NoAnswer]

\* The provider: state "none" (not constructed), "ready", "failed" (try_new
\* returned err) or "dropped" (constructed, then dropped unregistered);
\* native, the native answer its construction met; table_name, schema and
\* column_mapping, the fields of IbdTableProvider; asked, whether
\* register_ibd was called and with what name; registered, the name it is
\* registered under in the session ("" when it is not); reg_err, the error
\* register_ibd returned.
Provider(state, native, err, table_name, schema, column_mapping) ==
  [state |-> state, native |-> native, err |-> err, table_name |-> table_name,
   schema |-> schema, column_mapping |-> column_mapping,
   asked |-> [called |-> FALSE, some |-> FALSE, name |-> ""],
   registered |-> "", reg_err |-> NoErr]

NoCall == [fn |-> ""]

\* static INIT: Once = Once::new() and static mut INIT_RESULT: i32 = 0.
\* once is the state of INIT: "incomplete", "running" (a caller is in the
\* closure) or "complete"; init_calls counts the calls of ibd_init.
NewLib == [once |-> "incomplete", INIT_RESULT |-> 0, init_calls |-> 0]

\* A thread that is in no call.  pc: "idle", or the step of IbdReader::new
\* it is about to make ("call_once", "ibd_init", "check", "create"), or
\* "poll" while it polls a stream (polls).  news counts its calls of
\* IbdReader::new; observed is the INIT_RESULT its latest new read (some
\* FALSE when it read none); result is what its latest new returned ("" for
\* none yet, "ok", or the variant of the error); reader is the reader that
\* new created (0 for none) and opened tells that the thread opened a table
\* on it.
NoThread ==
  [pc |-> "idle", news |-> 0, observed |-> [some |-> FALSE, code |-> 0],
   result |-> "", reader |-> 0, opened |-> FALSE, polls |-> ""]

Init ==
  /\ provider = Provider("none", NoAnswer, NoErr, "", <<>>, <<>>)
  /\ call = NoCall
  /\ readers = <<>>
  /\ tables = <<>>
  /\ nopen = 0
  /\ stream = [s \in Streams |-> NoStream]
  /\ out = [s \in Streams |-> <<>>]
  /\ lastPull = [s |-> "", o |-> NoOutcome, result |-> None,
                 reported |-> NoErr, delivered |-> [variant |-> "", source |-> NoErr]]
  /\ lib = NewLib
  /\ thread = [t \in Threads |-> NoThread]

\* A mutation of drop_IbdTable: the handle is not closed.
drop_IbdTable_noop(ts, h, rs) == ts

\* impl Drop for IbdTable: ibd_close_table on the handle.
drop_IbdTable(ts, h, rs) ==
  [ts EXCEPT ![h].closes = @ + 1, ![h].lateClose = rs[ts[h].reader].destroyed,
             ![h].liveAtClose = ts[h].live]

\* A mutation of drop_IbdReader: the reader context is not destroyed.
drop_IbdReader_noop(rs, r) == rs

\* impl Drop for IbdReader: ibd_reader_destroy.
drop_IbdReader(rs, r) == [rs EXCEPT ![r].destroyed = TRUE]

\* A mutation of close_on_info_error: the handle is left open.
close_on_info_error_skip(ts, h) == ts

\* ffi::ibd_close_table(table_handle) before open_table returns the error
\* of ibd_get_table_info or of ibd_get_column_info.
close_on_info_error(ts, h) == [ts EXCEPT ![h].closes = @ + 1]

\* A mutation of drop_IbdStreamState: every open table handle is closed,
\* not only the one of the state.
drop_IbdStreamState_all(st, rs, ts) ==
  LET rs1 == drop_IbdReader(rs, st.reader)
  IN [readers |-> rs1,
      tables |-> [h \in 1..Len(ts) |->
                    IF ts[h].closes = 0 THEN drop_IbdTable(ts, h, rs1)[h] ELSE ts[h]]]

\* A mutation of drop_IbdStreamState: the table is forgotten, not dropped.
drop_IbdStreamState_leak(st, rs, ts) ==
  [readers |-> drop_IbdReader(rs, st.reader), tables |-> ts]

\* Dropping an IbdStreamState drops its fields in declaration order:
\* _reader, then table.  Yields the readers and tables afterwards.
drop_IbdStreamState(st, rs, ts) ==
  LET rs1 == drop_IbdReader(rs, st.reader)
  IN [readers |-> rs1, tables |-> drop_IbdTable(ts, st.table, rs1)]

\* A mutation of open_table: the handle of the first open is handed out again.
open_table_cached(ts) == 1

\* IbdReader::open_table hands out the table handle ibd_open_table stored:
\* a handle of its own for every successful open.
open_table(ts) == Len(ts) + 1

\* IbdTableProvider::try_new, given the native answer: the provider, the
\* readers and tables afterwards and the number of ibd_open_table calls.
\* The locals table and reader are dropped on return (in reverse order of
\* declaration: table, then reader).  When IbdReader::new fails nothing was
\* created; when open_table fails after ibd_open_table stored a handle,
\* open_table has closed it.
try_new(ans, rs, ts) ==
  IF ans.readerNull
    THEN {[provider |-> Provider("failed", ans, Err("Memory", ""), "", <<>>, <<>>),
           readers |-> rs, tables |-> ts, opens |-> 0]}
    ELSE LET r == Len(rs) + 1
             rs1 == Append(rs, [destroyed |-> FALSE])
         IN { IF t.tag = "table"
                THEN LET h == open_table(ts)
                     IN [provider |->
                           Provider("ready", ans, NoErr, t.table_name,
                                    build_fields(t.columns, <<>>),
                                    build_column_mapping(t.columns, <<>>, 0)),
                         readers |-> drop_IbdReader(rs1, r),
                         tables |->
                           drop_IbdTable(Append(ts, NewTable("schema", r)), h, rs1),
                         opens |-> 1]
                ELSE [provider |-> Provider("failed", ans, t.err, "", <<>>, <<>>),
                      readers |-> drop_IbdReader(rs1, r),
                      tables |->
                        IF t.opened
                          THEN Append(ts, [NewTable("schema", r) EXCEPT !.closes = 1])
                          ELSE ts,
                      opens |-> 1] :
              t \in open_table_result(ans) }

\* IbdTableProvider::try_new called on its own.
ProviderTryNewOn(ans) ==
  /\ provider.state = "none"
  /\ \E t \in try_new(ans, readers, tables) :
       /\ provider' = t.provider
       /\ readers' = t.readers
       /\ tables' = t.tables
       /\ nopen' = nopen + t.opens
  /\ UNCHANGED <<stream, out, lastPull, call, lib, thread>>

\* The native answer of a table whose catalog is Catalog, ibd_open_table
\* returning code.
SimpleAnswer(code) == NativeAnswer(FALSE, code, FALSE, 0, "mytable", NativeCatalog)

\* IbdTableProvider::try_new on the table of Catalog.
ProviderTryNew(code) == ProviderTryNewOn(SimpleAnswer(code))

\* Option<&str>: the name handed to register_ibd.
NoName == [some |-> FALSE, name |-> ""]

SomeName(name) == [some |-> TRUE, name |-> name]

\* A mutation of registered_name: the name the caller gave is ignored.
registered_name_own(table_name, own) == own

\* The name register_ibd registers under: table_name when the caller gave
\* one, the provider's table_name() otherwise.
registered_name(table_name, own) ==
  IF table_name.some THEN table_name.name ELSE own

\* DataFusionRunner::register_ibd: construct the provider, then register it
\* in the session under table_name, or under the table's own name when none
\* is given.  taken: the session has a table of that name already, so that
\* register_table fails and the provider is dropped.
register_ibd(table_name, taken, ans) ==
  /\ provider.state = "none"
  /\ \E t \in try_new(ans, readers, tables) :
       /\ readers' = t.readers
       /\ tables' = t.tables
       /\ nopen' = nopen + t.opens
       /\ LET p == [t.provider EXCEPT
                      !.asked = [called |-> TRUE, some |-> table_name.some,
                                 name |-> table_name.name]]
          IN provider' =
               IF p.state = "failed"
                 THEN [p EXCEPT
                         !.reg_err = Err("IbdReader", IbdError_to_string(p.err))]
                 ELSE LET name == registered_name(table_name, p.table_name)
                      IN IF taken
                           THEN [p EXCEPT
                                   !.state = "dropped",
                                   !.reg_err = Err("DataFusion", "table already exists")]
                           ELSE [p EXCEPT !.registered = name]
  /\ UNCHANGED <<stream, out, lastPull, call, lib, thread>>

\* Option<Vec<usize>>: the projection handed to scan.
NoProjection == [some |-> FALSE, indices |-> <<>>]

SomeProjection(indices) == [some |-> TRUE, indices |-> indices]

\* The projections a consumer asks for.
Projections == {NoProjection, SomeProjection(<<1, 0>>)}

\* A mutation of project_schema: no projection yields no field.
project_schema_none_empty(schema, projection) ==
  IF projection.some
    THEN [k \in 1..Len(projection.indices) |-> schema[projection.indices[k] + 1]]
    ELSE <<>>

\* IbdExec::new: the projected schema, schema.project(indices) when there
\* is a projection (the fields at the indices, in their order), the schema
\* otherwise.
project_schema(schema, projection) ==
  IF projection.some
    THEN [k \in 1..Len(projection.indices) |-> schema[projection.indices[k] + 1]]
    ELSE schema

\* The indices of a projection, in increasing order.
SortedIndices(indices) ==
  LET S == {indices[k] : k \in 1..Len(indices)}
  IN [k \in 1..Cardinality(S) |->
        CHOOSE x \in S : Cardinality({y \in S : y < x}) = k - 1]

\* A mutation of projected_columns_of: the projected columns are put in
\* schema order.
projected_columns_of_sorted(column_mapping, projection) ==
  LET indices == IF projection.some
                   THEN SortedIndices(projection.indices)
                   ELSE [i \in 1..Len(column_mapping) |-> i - 1]
  IN [k \in 1..Len(indices) |->
        [col_type |-> column_mapping[indices[k] + 1].col_type,
         ibd_index |-> column_mapping[indices[k] + 1].ibd_index]]

\* IbdStreamState::try_new, after the table was opened: the projected
\* columns, in the order of the projection (all columns of the mapping, in
\* order, when there is none).
projected_columns_of(column_mapping, projection) ==
  LET indices == IF projection.some
                   THEN projection.indices
                   ELSE [i \in 1..Len(column_mapping) |-> i - 1]
  IN [k \in 1..Len(indices) |->
        [col_type |-> column_mapping[indices[k] + 1].col_type,
         ibd_index |-> column_mapping[indices[k] + 1].ibd_index]]

\* What the query engine receives from a call that did not fail.
NoEngineError == [variant |-> "", source |-> NoErr]

\* A mutation of External: the error is replaced by a library error with
\* the same message.
External_library(e) == [variant |-> "External", source |-> Err("Library", e.msg)]

\* DataFusionError::External(Box<dyn Error>): the error is boxed as it is.
External(e) == [variant |-> "External", source |-> e]

\* .map_err(DataFusionError::External) on what read_next_batch returned.
map_err_External(result) ==
  IF result.kind = "err" THEN External(result.err) ELSE NoEngineError

\* An Option<usize> limit.
NoLimit == [some |-> FALSE, n |-> 0]

SomeLimit(n) == [some |-> TRUE, n |-> n]

\* A mutation of scan: the batch size follows the limit.
scan_limited(projection, filters, limit) ==
  [projection |-> projection,
   batch_size |-> IF limit.some /\ limit.n < DEFAULT_BATCH_SIZE
                    THEN limit.n
                    ELSE DEFAULT_BATCH_SIZE]

\* TableProvider::scan: the plan (IbdExec) is built from the provider's
\* config, schema and column mapping and from the projection; _filters and
\* _limit are not used.  The streams of the plan read DEFAULT_BATCH_SIZE
\* rows per batch.
scan(projection, filters, limit) ==
  [projection |-> projection, batch_size |-> DEFAULT_BATCH_SIZE]

\* scan and IbdExec::execute: the plan keeps the projection and the
\* projected schema; IbdStreamState::try_new creates a reader context and
\* opens a table handle of its own, then the state is wrapped in try_unfold.
\* When the open fails the error is returned and no stream exists.  The
\* stream's fields filters and limit record what scan was given, native
\* what the native library answered, returned the error execute returned.  This is what scan and execute do to the
\* readers, the handles and the stream, given what the native library
\* answers to IbdReader::new and open_table (ans).
StartStreamOn(s, projection, filters, limit, ans) ==
  /\ provider.state = "ready"
  /\ stream[s].exists = "none"
  /\ IF ans.readerNull
       THEN /\ nopen' = nopen
            /\ tables' = tables
            /\ readers' = readers
            /\ stream' = [stream EXCEPT
                            ![s].exists = "failed", ![s].native = ans,
                            ![s].returned = External(Err("Memory", ""))]
       ELSE /\ nopen' = nopen + 1
            /\ LET r == Len(readers) + 1
                   rs == Append(readers, [destroyed |-> FALSE])
                   plan == scan(projection, filters, limit)
               IN \E t \in open_table_result(ans) :
                    IF t.tag = "table"
                      THEN LET h == open_table(tables)
                           IN /\ tables' = Append(tables, NewTable(s, r))
                              /\ readers' = rs
                              /\ stream' =
                                   [stream EXCEPT
                                      ![s] = [exists |-> "open", held |-> TRUE,
                                              done |-> FALSE,
                                              table |-> h, reader |-> r,
                                              projection |-> plan.projection,
                                              schema |->
                                                project_schema(provider.schema,
                                                               plan.projection),
                                              projected_columns |->
                                                projected_columns_of(
                                                  provider.column_mapping,
                                                  plan.projection),
                                              batch_size |-> plan.batch_size,
                                              filters |-> filters, limit |-> limit,
                                              returned |-> NoEngineError,
                                              native |-> ans]]
                      ELSE /\ tables' =
                                IF t.opened
                                  THEN close_on_info_error(
                                         Append(tables, NewTable("partial", r)),
                                         Len(tables) + 1)
                                  ELSE tables
                           /\ readers' = drop_IbdReader(rs, r)
                           /\ stream' = [stream EXCEPT
                                           ![s].exists = "failed",
                                           ![s].native = ans,
                                           ![s].returned = External(t.err)]
  /\ UNCHANGED <<out, lastPull, call, lib, thread>>

\* The same when ibd_open_table returns code and the later native calls
\* succeed.
StartStream(s, projection, filters, limit, code) ==
  StartStreamOn(s, projection, filters, limit, SimpleAnswer(code))

\* A mutation of ScanExecute: an execute whose open fails clears the
\* provider's schema and column mapping.
ScanExecute_clears(s, projection, filters, limit, code) ==
  /\ StartStream(s, projection, filters, limit, code)
  /\ provider' = IF IbdResultFrom(code) = "Success"
                   THEN provider
                   ELSE [provider EXCEPT !.schema = <<>>, !.column_mapping = <<>>]

\* scan and IbdExec::execute take &self and clone the provider's schema and
\* column mapping: the provider is left as it was.
ScanExecute(s, projection, filters, limit, code) ==
  /\ StartStream(s, projection, filters, limit, code)
  /\ UNCHANGED provider

\* A scan without filters and limit, then execute.
Execute(s, projection, code) ==
  ScanExecute(s, projection, <<>>, NoLimit, code)

\* The inner for loop of read_next_batch over one row: row.get for every
\* projected column from the k-th on, stopping at the first error.
RECURSIVE get_cells(_, _, _, _)
get_cells(cols, k, ncols, o) ==
  IF k > Len(cols)
    THEN {[ok |-> TRUE, err |-> NoErr, calls |-> 0]}
    ELSE UNION
           { IF g.tag = "err"
               THEN {[ok |-> FALSE, err |-> g.err, calls |-> g.calls]}
               ELSE {[r EXCEPT !.calls = @ + g.calls] :
                       r \in get_cells(cols, k + 1, ncols, o)} :
             g \in IbdRow_get(cols[k].ibd_index, ncols,
                              IF k = 1 THEN o.cellCode ELSE 0) }

\* Mutations of loop_continues: the loop goes on whatever was read; the loop
\* stops after one row.
loop_continues_unbounded(rows_read, batch_size) == TRUE

loop_continues_one(rows_read, batch_size) == rows_read < 1

\* A mutation of loop_continues: the loop runs one row too far.
loop_continues_le(rows_read, batch_size) == rows_read <= batch_size

\* The condition of the while loop of read_next_batch.
loop_continues(rows_read, batch_size) == rows_read < batch_size

\* A mutation of push_row: the row goes in front of the rows read before.
push_row_front(rows, row) == <<row>> \o rows

\* builder.push for every projected column of a row: the row goes after the
\* rows the builders hold.
push_row(rows, row) == Append(rows, row)

\* A mutation of with_capacity: a Double column gets the String builder.
with_capacity_no_double(col_type) ==
  CASE col_type = "Int" -> "Int"
    [] col_type = "UInt" -> "UInt"
    [] col_type = "Float" -> "Float"
    [] OTHER -> "String"

\* ColumnBuilder::with_capacity: the variant of the builder.
with_capacity(col_type) ==
  CASE col_type = "Int" -> "Int"
    [] col_type = "UInt" -> "UInt"
    [] col_type \in {"Float", "Double"} -> "Float"
    [] OTHER -> "String"

\* ColumnBuilder::finish: the type of the array built from the values.
finish(builder) ==
  CASE builder = "Int" -> "Int64"
    [] builder = "UInt" -> "UInt64"
    [] builder = "Float" -> "Float64"
    [] builder = "String" -> "Utf8"

\* The result of a RecordBatch::try_new that succeeded.
BatchOk == "ok"

\* RecordBatch::try_new(schema, arrays) of the Arrow library, on the types
\* of the schema's fields and of the arrays: it refuses a number of arrays
\* other than the number of fields, the absence of any array (no row count
\* is given) and an array whose type is not its field's.  The arrays of
\* read_next_batch have the same length, one entry per row read.
RecordBatch_try_new(field_types, array_types) ==
  IF Len(field_types) # Len(array_types)
    THEN "number of columns must match number of fields in schema"
    ELSE IF Len(array_types) = 0
      THEN "must either specify a row count or at least one column"
      ELSE IF \E i \in 1..Len(array_types) : array_types[i] # field_types[i]
        THEN "column types must match schema types"
        ELSE BatchOk

\* builders.into_iter().map(finish) and RecordBatch::try_new(..)? at the end
\* of read_next_batch, for the stream state and what the loop yielded: the
\* batch, or the error of the Arrow library.
try_new_batch(state, result) ==
  IF result.kind # "batch"
    THEN result
    ELSE LET made ==
               RecordBatch_try_new(
                 [i \in 1..Len(state.schema) |-> state.schema[i].data_type],
                 [k \in 1..Len(state.projected_columns) |->
                    finish(with_capacity(state.projected_columns[k].col_type))])
         IN IF made = BatchOk THEN result ELSE Failed(Err("ArrowError", made))

\* A mutation of drop_IbdRow: the row handle is not freed.
drop_IbdRow_leak(st) == st

\* impl Drop for IbdRow: ibd_free_row on the row handle.  The row of an
\* iteration goes out of scope at the end of the match arm, and when get
\* fails and ? returns.
drop_IbdRow(st) == [st EXCEPT !.frees = @ + 1, !.live = @ - 1]

\* The larger of two numbers.
Max(a, b) == IF a >= b THEN a ELSE b

\* The while loop of read_next_batch, once rows were appended to the
\* builders.  st holds those rows, done, the native cursor and call
\* counters of the table, and last, the outcome of the latest iteration.
\* Each iteration meets one of ReadOutcomes, the native library's choice (a
\* cursor at MaxRows returns no further row).  Yields the ways the loop can
\* end: ret "exit" (fell out of the loop) or "err" (left by ?).
RECURSIVE read_loop(_, _, _)
read_loop(cols, batch_size, st) ==
  IF ~loop_continues(Len(st.rows), batch_size)
    THEN {[ret |-> "exit", err |-> NoErr, st |-> st]}
    ELSE UNION
           { LET st1 == [st EXCEPT !.reads = @ + 1, !.last = o,
                                   !.liveAtRead = Max(@, st.live)]
             IN UNION
                  { CASE nr.tag = "err" ->
                           {[ret |-> "err", err |-> nr.err,
                             st |-> [st1 EXCEPT !.seen = "err"]]}
                      [] nr.tag = "none" ->
                           {[ret |-> "exit", err |-> NoErr,
                             st |-> [st1 EXCEPT !.done = TRUE, !.seen = "eod"]]}
                      [] OTHER ->
                           LET st2 == [st1 EXCEPT !.cursor = @ + 1,
                                                  !.handles = @ + 1,
                                                  !.live = @ + 1,
                                                  !.maxLive = Max(@, st1.live + 1)]
                           IN UNION
                                { IF c.ok
                                    THEN read_loop(cols, batch_size,
                                                   drop_IbdRow(
                                                     [st2 EXCEPT
                                                        !.rows = push_row(@, st2.cursor),
                                                        !.cells = @ + c.calls]))
                                    ELSE {[ret |-> "err", err |-> c.err,
                                           st |-> drop_IbdRow(
                                                    [st2 EXCEPT
                                                       !.cells = @ + c.calls,
                                                       !.seen = "err"])]} :
                                  c \in get_cells(cols, 1, column_count(Catalog), o) } :
                    nr \in next_row(o) } :
             o \in {x \in ReadOutcomes : x.code = 0 => st.cursor < MaxRows} }

\* A mutation of finish_batch: the test for zero rows is missing.
finish_batch_always(rows) == Batch(rows)

\* What read_next_batch returns once the loop is over: nothing when no row
\* was read, the batch otherwise.
finish_batch(rows) == IF Len(rows) = 0 THEN None ELSE Batch(rows)

\* A mutation of batch_result: an error after some rows were read yields
\* the rows read so far as a batch.
batch_result_partial(ret, err, rows) ==
  IF ret = "err" /\ rows = <<>>
    THEN Failed(err)
    ELSE IF rows = <<>> THEN None ELSE Batch(rows)

\* What read_next_batch returns for a way the loop ended: the error when
\* it was left by ? (the builders are dropped), the finished batch otherwise.
batch_result(ret, err, rows) ==
  IF ret = "err" THEN Failed(err) ELSE finish_batch(rows)

\* A mutation of already_done: the test is missing.
already_done_never(state) == FALSE

\* The test read_next_batch starts with: a state that is done reads nothing.
already_done(state) == state.done

\* IbdStreamState::read_next_batch on state (the stream's IbdStreamState)
\* and tab (its table handle).  Yields the possible (result, done, table)
\* afterwards, with last, the native outcome of its last iteration
\* (NoOutcome when it made none), and reported, the error next_row or
\* get returned to it (NoErr when none did).
read_next_batch(state, tab) ==
  IF already_done(state)
    THEN {[result |-> None, done |-> state.done, tab |-> tab, last |-> NoOutcome,
           reported |-> NoErr]}
    ELSE { [result |-> try_new_batch(state, batch_result(l.ret, l.err, l.st.rows)),
            done |-> l.st.done,
            last |-> l.st.last,
            reported |-> l.err,
            tab |-> [tab EXCEPT !.cursor = l.st.cursor, !.reads = l.st.reads,
                                !.cells = l.st.cells, !.seen = l.st.seen,
                                !.pullStart = tab.cursor,
                                !.handles = l.st.handles, !.frees = l.st.frees,
                                !.live = l.st.live, !.maxLive = l.st.maxLive,
                                !.liveAtRead = l.st.liveAtRead]] :
           l \in read_loop(state.projected_columns, state.batch_size,
                           [rows |-> <<>>, done |-> state.done, cursor |-> tab.cursor,
                            reads |-> tab.reads, cells |-> tab.cells,
                            seen |-> tab.seen, last |-> NoOutcome,
                            handles |-> tab.handles, frees |-> tab.frees,
                            live |-> tab.live, maxLive |-> tab.maxLive,
                            liveAtRead |-> tab.liveAtRead]) }

\* Pulls made so far, over all streams.
RECURSIVE PullsOf(_)
PullsOf(S) ==
  IF S = {} THEN 0 ELSE LET s == CHOOSE x \in S : TRUE IN Len(out[s]) + PullsOf(S \ {s})

\* Mutations of keeps_state: the state is kept whatever the closure
\* returned; the state is kept when the closure returned an error.
keeps_state_always(result) == TRUE

keeps_state_on_err(result) == result.kind \in {"batch", "err"}

\* try_unfold keeps the state for the next poll only when the closure
\* returned Ok(Some((batch, state))); on Ok(None) and on Err the state was
\* moved into the closure's future and is dropped with it.
keeps_state(result) == result.kind = "batch"

\* One poll of the stream built in execute (try_unfold over
\* read_next_batch).  A stream that no longer holds its state returns None.
\* This is what the poll does to the stream, the handles and the log.
poll_next(s) ==
  /\ stream[s].exists = "open"
  /\ PullsOf(Streams) < MaxPulls
  /\ IF ~stream[s].held
       THEN /\ out' = [out EXCEPT ![s] = Append(@, Logged(None))]
            /\ lastPull' = [s |-> s, o |-> NoOutcome, result |-> None,
                            reported |-> NoErr, delivered |-> NoEngineError]
            /\ UNCHANGED <<stream, tables, readers>>
       ELSE \E r \in read_next_batch(stream[s], tables[stream[s].table]) :
              /\ out' = [out EXCEPT ![s] = Append(@, Logged(r.result))]
              /\ lastPull' = [s |-> s, o |-> r.last, result |-> r.result,
                              reported |-> r.reported,
                              delivered |-> map_err_External(r.result)]
              /\ LET ts == [tables EXCEPT ![stream[s].table] = r.tab]
                 IN IF keeps_state(r.result)
                      THEN /\ stream' = [stream EXCEPT ![s].done = r.done]
                           /\ tables' = ts
                           /\ readers' = readers
                      ELSE LET d == drop_IbdStreamState(stream[s], readers, ts)
                           IN /\ stream' = [stream EXCEPT ![s].done = r.done,
                                                          ![s].held = FALSE]
                              /\ tables' = d.tables
                              /\ readers' = d.readers
  /\ UNCHANGED <<provider, nopen, call, lib>>

\* A poll by a consumer that polls its streams from one task.
Pull(s) ==
  /\ poll_next(s)
  /\ UNCHANGED thread

\* The consumer drops the stream; a state still held is dropped with it.
DropStream(s) ==
  /\ stream[s].exists = "open"
  /\ IF stream[s].held
       THEN LET d == drop_IbdStreamState(stream[s], readers, tables)
            IN /\ tables' = d.tables
               /\ readers' = d.readers
       ELSE UNCHANGED <<tables, readers>>
  /\ stream' = [stream EXCEPT ![s].exists = "dropped", ![s].held = FALSE]
  /\ UNCHANGED <<provider, nopen, out, lastPull, call, lib, thread>>

\* Result codes ibd_open_table may return: Success, ErrorFileNotFound.
OpenCodes == {0, -2}

Next ==
  \/ \E code \in OpenCodes : ProviderTryNew(code)
  \/ \E s \in Streams, projection \in Projections, code \in OpenCodes :
       Execute(s, projection, code)
  \/ \E s \in Streams : Pull(s)
  \/ \E s \in Streams : DropStream(s)

Spec == Init /\ [][Next]_vars

\* ------------------------------------------------- cell conversion

\* A value of enum ColumnValue: its variant, and its number (Int, UInt;
\* Float, in tenths) or its text (String, Formatted; Binary, as hex digits).
ColumnValue(tag, n, s) == [tag |-> tag, n |-> n, s |-> s]

\* The texts a cell may carry.
Strings == {"", "0", "12", "-3", "1.5", "abc", "NULL"}

\* What ibd_row_get_column stores in an IbdColumnValue: is_null, the type
\* code col_type, the member of the union the library wrote for that type
\* (n for int_val, uint_val and float_val in tenths; s for the bytes of
\* str_val, as hex digits) and the formatted text.
NativeCell(is_null, col_type, n, s, formatted) ==
  [is_null |-> is_null, col_type |-> col_type, n |-> n, s |-> s,
   formatted |-> formatted]

NativeCells ==
  UNION
    { { NativeCell(is_null, t, n, b, f) :
          is_null \in {0, 1},
          n \in (CASE t = 1 -> {-3, 0, 12}
                   [] t = 2 -> {0, 12}
                   [] t \in {3, 4} -> {-30, 0, 15, 120}
                   [] OTHER -> {0}),
          b \in (IF t = 6 THEN {"", "ab"} ELSE {""}),
          f \in (IF t \in {1, 2, 3, 4, 6} THEN {""} ELSE Strings) } :
      t \in NativeTypeCodes }

\* IbdRow::get past the index test, given the result code of
\* ibd_row_get_column and the cell it stored: the ColumnValue or the error.
IbdRow_get_value(cellCode, cell) ==
  LET ibd_result == IbdResultFrom(cellCode)
      col_type == IbdColumnTypeFrom(cell.col_type)
      ok(v) == [tag |-> "value", err |-> NoErr, value |-> v]
  IN IF ibd_result # "Success"
       THEN {[tag |-> "err", err |-> e, value |-> ColumnValue("Null", 0, "")] :
               e \in ibd_error_from_result(ibd_result, "Failed to get column value")}
       ELSE IF cell.is_null # 0
         THEN {ok(ColumnValue("Null", 0, ""))}
         ELSE CASE col_type = "Int" -> {ok(ColumnValue("Int", cell.n, ""))}
                [] col_type = "UInt" -> {ok(ColumnValue("UInt", cell.n, ""))}
                [] col_type \in {"Float", "Double"} ->
                     {ok(ColumnValue("Float", cell.n, ""))}
                [] col_type = "String" -> {ok(ColumnValue("String", 0, cell.formatted))}
                [] col_type = "Binary" -> {ok(ColumnValue("Binary", 0, cell.s))}
                [] OTHER -> {ok(ColumnValue("Formatted", 0, cell.formatted))}

\* An entry of a builder, Option<i64>, Option<u64>, Option<f64> (in tenths)
\* or Option<String>: None, or Some of a number or a text.
NoneEntry == [some |-> FALSE, n |-> 0, s |-> ""]

SomeNumber(n) == [some |-> TRUE, n |-> n, s |-> ""]

SomeText(s) == [some |-> TRUE, n |-> 0, s |-> s]

\* str::parse::<i64>, ::<u64> and ::<f64> (in tenths) on Strings, .ok().
parse_i64(s) ==
  CASE s = "0" -> SomeNumber(0)
    [] s = "12" -> SomeNumber(12)
    [] s = "-3" -> SomeNumber(-3)
    [] OTHER -> NoneEntry

parse_u64(s) ==
  CASE s = "0" -> SomeNumber(0)
    [] s = "12" -> SomeNumber(12)
    [] OTHER -> NoneEntry

parse_f64(s) ==
  CASE s = "0" -> SomeNumber(0)
    [] s = "12" -> SomeNumber(120)
    [] s = "-3" -> SomeNumber(-30)
    [] s = "1.5" -> SomeNumber(15)
    [] OTHER -> NoneEntry

\* i64::to_string and u64::to_string on the numbers of NativeCells.
int_to_string(n) ==
  CASE n = 0 -> "0" [] n = 12 -> "12" [] n = -3 -> "-3"

\* f64::to_string on the numbers (in tenths) of NativeCells.
float_to_string(n) ==
  CASE n = 0 -> "0" [] n = 15 -> "1.5" [] n = -30 -> "-3" [] n = 120 -> "12"

\* ColumnValue::as_string
as_string(value) ==
  CASE value.tag = "Null" -> "NULL"
    [] value.tag = "Int" -> int_to_string(value.n)
    [] value.tag = "UInt" -> int_to_string(value.n)
    [] value.tag = "Float" -> float_to_string(value.n)
    [] value.tag = "String" -> value.s
    [] value.tag = "Binary" -> "0x" \o value.s
    [] value.tag = "Formatted" -> value.s

\* A mutation of push: the numeric builders have no arm for Formatted.
push_no_parse(builder, value) ==
  CASE builder = "Int" ->
         (CASE value.tag = "Int" -> SomeNumber(value.n)
            [] OTHER -> NoneEntry)
    [] builder = "UInt" ->
         (CASE value.tag = "UInt" -> SomeNumber(value.n)
            [] OTHER -> NoneEntry)
    [] builder = "Float" ->
         (CASE value.tag = "Float" -> SomeNumber(value.n)
            [] OTHER -> NoneEntry)
    [] builder = "String" ->
         (CASE value.tag = "Null" -> NoneEntry
            [] OTHER -> SomeText(as_string(value)))

\* A mutation of push: the String builder has no arm for Null.
push_null_as_text(builder, value) ==
  CASE builder = "Int" ->
         (CASE value.tag = "Null" -> NoneEntry
            [] value.tag = "Int" -> SomeNumber(value.n)
            [] value.tag = "Formatted" -> parse_i64(value.s)
            [] OTHER -> NoneEntry)
    [] builder = "UInt" ->
         (CASE value.tag = "Null" -> NoneEntry
            [] value.tag = "UInt" -> SomeNumber(value.n)
            [] value.tag = "Formatted" -> parse_u64(value.s)
            [] OTHER -> NoneEntry)
    [] builder = "Float" ->
         (CASE value.tag = "Null" -> NoneEntry
            [] value.tag = "Float" -> SomeNumber(value.n)
            [] value.tag = "Formatted" -> parse_f64(value.s)
            [] OTHER -> NoneEntry)
    [] builder = "String" -> SomeText(as_string(value))

\* A mutation of push: a numeric builder takes the number of any numeric
\* cell, whatever its variant.
push_cast(builder, value) ==
  IF builder \in {"Int", "UInt", "Float"} /\ value.tag \in {"Int", "UInt", "Float"}
    THEN SomeNumber(value.n)
    ELSE NoneEntry

\* ColumnBuilder::push: the entry pushed for the value.
push(builder, value) ==
  CASE builder = "Int" ->
         (CASE value.tag = "Null" -> NoneEntry
            [] value.tag = "Int" -> SomeNumber(value.n)
            [] value.tag = "Formatted" -> parse_i64(value.s)
            [] OTHER -> NoneEntry)
    [] builder = "UInt" ->
         (CASE value.tag = "Null" -> NoneEntry
            [] value.tag = "UInt" -> SomeNumber(value.n)
            [] value.tag = "Formatted" -> parse_u64(value.s)
            [] OTHER -> NoneEntry)
    [] builder = "Float" ->
         (CASE value.tag = "Null" -> NoneEntry
            [] value.tag = "Float" -> SomeNumber(value.n)
            [] value.tag = "Formatted" -> parse_f64(value.s)
            [] OTHER -> NoneEntry)
    [] builder = "String" ->
         (CASE value.tag = "Null" -> NoneEntry
            [] OTHER -> SomeText(as_string(value)))

\* Cells pushed to one builder.
MaxCells == 2

\* The zeroed IbdColumnValue that get hands to ibd_row_get_column.
ZeroCell == NativeCell(0, 0, 0, "", "")

\* A column of a scan: it was declared with the type code declared
\* (ibd_get_column_info), which fixes its type, its Arrow type (the field of
\* the schema) and the builder read_next_batch creates for it.
DeclareColumn(declared) ==
  /\ provider.state = "ready"
  /\ LET col_type == ColumnTypeFrom(IbdColumnTypeFrom(declared))
     IN call' = [fn |-> "with_capacity", declared |-> declared,
                 col_type |-> col_type,
                 data_type |-> ibd_to_arrow_type(col_type),
                 builder |-> with_capacity(col_type),
                 cellCode |-> 0, cell |-> ZeroCell, got |-> "", err |-> NoErr,
                 value |-> ColumnValue("Null", 0, ""), entry |-> NoneEntry,
                 len |-> 0, array_type |-> "", batch |-> ""]
  /\ UNCHANGED <<provider, readers, tables, nopen, stream, out, lastPull,
                 lib, thread>>

\* One cell of the column on its way from the native row to the batch:
\* row.get reads the cell and builder.push appends the entry to the
\* builder's values (len is their number).  A failing get leaves
\* read_next_batch by ?: nothing is pushed and the builder is dropped.
ReadCell(cellCode, cell) ==
  /\ call.fn \in {"with_capacity", "push"}
  /\ call.got # "err"
  /\ call.len < MaxCells
  /\ \E g \in IbdRow_get_value(cellCode, cell) :
       call' = [call EXCEPT
                  !.fn = "push", !.cellCode = cellCode, !.cell = cell,
                  !.got = g.tag, !.err = g.err, !.value = g.value,
                  !.entry = IF g.tag = "value"
                              THEN push(call.builder, g.value)
                              ELSE NoneEntry,
                  !.len = IF g.tag = "value" THEN @ + 1 ELSE @]
  /\ UNCHANGED <<provider, readers, tables, nopen, stream, out, lastPull,
                 lib, thread>>

\* What ibd_row_get_column may do for a cell: store a cell and return
\* Success, or return ErrorFileRead.
CellReads == {<<0, cell>> : cell \in NativeCells} \cup {<<-3, ZeroCell>>}

\* Predicates a consumer may hand to supports_filters_pushdown, at most
\* MaxFilters of them.
MaxFilters == 3

Exprs == {"id = 1", "name LIKE 'a%'"}

FilterLists == UNION {[1..n -> Exprs] : n \in 0..MaxFilters}

\* A mutation of supports_filters_pushdown_result: the first predicate is
\* taken as handled, and left out of the answer.
supports_filters_pushdown_result_tail(filters) ==
  [tag |-> "ok",
   verdicts |-> [i \in 1..(Len(filters) - 1) |-> "Unsupported"]]

\* What supports_filters_pushdown returns: Ok of one Unsupported per
\* predicate.
supports_filters_pushdown_result(filters) ==
  [tag |-> "ok", verdicts |-> [i \in 1..Len(filters) |-> "Unsupported"]]

\* IbdTableProvider::supports_filters_pushdown, called on a provider.
supports_filters_pushdown(filters) ==
  /\ provider.state = "ready"
  /\ call' = [fn |-> "supports_filters_pushdown", filters |-> filters,
              result |-> supports_filters_pushdown_result(filters)]
  /\ UNCHANGED <<provider, readers, tables, nopen, stream, out, lastPull,
                 lib, thread>>

\* The end of read_next_batch for one column with at least one row:
\* builder.finish() and RecordBatch::try_new against the column's field.
FinishColumn ==
  /\ call.fn \in {"with_capacity", "push"}
  /\ call.got # "err"
  /\ call.len >= 1
  /\ call' = [call EXCEPT
                !.fn = "finish",
                !.array_type = finish(call.builder),
                !.batch = RecordBatch_try_new(<<call.data_type>>,
                                              <<finish(call.builder)>>)]
  /\ UNCHANGED <<provider, readers, tables, nopen, stream, out, lastPull,
                 lib, thread>>

NextCalls ==
  \/ \E code \in OpenCodes : ProviderTryNew(code)
  \/ \E declared \in NativeTypeCodes : DeclareColumn(declared)
  \/ \E r \in CellReads : ReadCell(r[1], r[2])
  \/ FinishColumn
  \/ \E filters \in FilterLists : supports_filters_pushdown(filters)

SpecCalls == Init /\ [][NextCalls]_vars

\* ------------------------------------------- provider construction

\* Columns a catalog may have.
MaxCols == 3

\* Type codes of the catalogs: Internal, Int, Float, String and a code that
\* is not one of IbdColumnType.
CatalogTypeCodes == {99, 1, 3, 5, 50}

\* The column names, by catalog position.
ColNames == <<"DB_TRX_ID", "id", "name", "c3", "c4", "c5">>

\* The catalogs of n columns, every ibd_get_column_info succeeding.
NativeCatalogs(n) ==
  { [i \in 1..n |-> NativeColumn(0, ColNames[i], t[i])] :
      t \in [1..n -> CatalogTypeCodes] }

\* The native answers a construction may meet: a null reader, a failing
\* ibd_open_table, a null table handle, a failing ibd_get_table_info, a
\* catalog of up to MaxCols columns, and a catalog whose last
\* ibd_get_column_info fails (no native call follows the first failure).
NativeAnswers ==
  { NativeAnswer(TRUE, 99, FALSE, 0, "", <<>>),
    NativeAnswer(FALSE, -2, FALSE, 0, "", <<>>),
    NativeAnswer(FALSE, 0, TRUE, 0, "", <<>>),
    NativeAnswer(FALSE, 0, FALSE, -5, "", <<>>) }
    \cup { NativeAnswer(FALSE, 0, FALSE, 0, "mytable", c) :
             c \in UNION {NativeCatalogs(n) : n \in 0..MaxCols} }
    \cup { NativeAnswer(FALSE, 0, FALSE, 0, "mytable",
                        Append(c, NativeColumn(-3, "", 0))) :
             c \in UNION {NativeCatalogs(n) : n \in 0..(MaxCols - 1)} }

\* The names register_ibd is called with.
TableNames == {NoName, SomeName("ibd_table")}

\* ------------------------------------------------ library initialisation

\* Result codes ibd_init may return: Success, ErrorMemory.
InitCodes == {0, -10}

\* A mutation of call_once_runs: the closure runs whenever no other caller
\* is in it.
call_once_runs_again(once) == once # "running"

\* Once::call_once: the caller runs the closure when the Once is incomplete;
\* when it is complete the caller returns at once.
call_once_runs(once) == once = "incomplete"

\* A thread calls IbdReader::new, which starts with ensure_init.
NewBegin(t) ==
  /\ thread[t].pc = "idle"
  /\ thread[t].news < MaxNews
  /\ thread' = [thread EXCEPT ![t].pc = "call_once", ![t].news = @ + 1,
                              ![t].observed = NoThread.observed,
                              ![t].result = "", ![t].reader = 0,
                              ![t].opened = FALSE]
  /\ UNCHANGED <<provider, readers, tables, nopen, stream, out, lastPull, call,
                 lib>>

\* ensure_init: INIT.call_once.  A caller that finds another caller in the
\* closure waits for it.
CallOnce(t) ==
  /\ thread[t].pc = "call_once"
  /\ lib.once # "running"
  /\ IF call_once_runs(lib.once)
       THEN /\ lib' = [lib EXCEPT !.once = "running"]
            /\ thread' = [thread EXCEPT ![t].pc = "ibd_init"]
       ELSE /\ lib' = lib
            /\ thread' = [thread EXCEPT ![t].pc = "check"]
  /\ UNCHANGED <<provider, readers, tables, nopen, stream, out, lastPull, call>>

\* The closure of call_once: INIT_RESULT = ffi::ibd_init(); the Once is
\* complete when it returns.
IbdInit(t, code) ==
  /\ thread[t].pc = "ibd_init"
  /\ lib' = [once |-> "complete", INIT_RESULT |-> code,
             init_calls |-> lib.init_calls + 1]
  /\ thread' = [thread EXCEPT ![t].pc = "check"]
  /\ UNCHANGED <<provider, readers, tables, nopen, stream, out, lastPull, call>>

\* ensure_init after call_once: Ok when INIT_RESULT is 0, IbdError::Library
\* otherwise, which IbdReader::new returns through ?.
CheckInit(t) ==
  /\ thread[t].pc = "check"
  /\ thread' =
       [thread EXCEPT
          ![t].observed = [some |-> TRUE, code |-> lib.INIT_RESULT],
          ![t].pc = IF lib.INIT_RESULT = 0 THEN "create" ELSE "idle",
          ![t].result = IF lib.INIT_RESULT = 0 THEN "" ELSE "Library"]
  /\ UNCHANGED <<provider, readers, tables, nopen, stream, out, lastPull, call,
                 lib>>

\* IbdReader::new after ensure_init: ibd_reader_create; a null handle is
\* IbdError::Memory.
ReaderCreate(t, isNull) ==
  /\ thread[t].pc = "create"
  /\ IF isNull
       THEN /\ readers' = readers
            /\ thread' = [thread EXCEPT ![t].pc = "idle", ![t].result = "Memory"]
       ELSE /\ readers' = Append(readers, [destroyed |-> FALSE])
            /\ thread' = [thread EXCEPT ![t].pc = "idle", ![t].result = "ok",
                                        ![t].reader = Len(readers) + 1]
  /\ UNCHANGED <<provider, tables, nopen, stream, out, lastPull, call, lib>>

\* The caller opens a table on the reader new returned (ibd_open_table).
ReaderOpen(t, code) ==
  /\ thread[t].pc = "idle"
  /\ thread[t].result = "ok"
  /\ ~thread[t].opened
  /\ nopen' = nopen + 1
  /\ thread' = [thread EXCEPT ![t].opened = TRUE]
  /\ tables' = IF IbdResultFrom(code) = "Success"
                 THEN Append(tables, NewTable(t, thread[t].reader))
                 ELSE tables
  /\ UNCHANGED <<provider, readers, stream, out, lastPull, call, lib>>

NextInit ==
  \/ \E t \in Threads : NewBegin(t)
  \/ \E t \in Threads : CallOnce(t)
  \/ \E t \in Threads, code \in InitCodes : IbdInit(t, code)
  \/ \E t \in Threads : CheckInit(t)
  \/ \E t \in Threads, isNull \in BOOLEAN : ReaderCreate(t, isNull)
  \/ \E t \in Threads, code \in OpenCodes : ReaderOpen(t, code)

SpecInit == Init /\ [][NextInit]_vars

\* ------------------------------------------------ open_table with its paths

\* A path given to open_table: whether it is valid UTF-8 and whether it
\* holds a null byte.
Path(utf8, nul) == [utf8 |-> utf8, nul |-> nul]

Paths == {Path(TRUE, FALSE), Path(FALSE, FALSE), Path(TRUE, TRUE)}

\* path_to_cstring: IbdError::InvalidPath for a path that is not UTF-8 or
\* that holds a null byte.
path_to_cstring(path) ==
  IF ~path.utf8
    THEN [tag |-> "err", err |-> Err("InvalidPath", "Path contains invalid UTF-8")]
    ELSE IF path.nul
      THEN [tag |-> "err", err |-> Err("InvalidPath", "Path contains null bytes")]
      ELSE [tag |-> "cstring", err |-> NoErr]

\* IbdReader::open_table on the reader r, with what the native library
\* answers (ans).  Yields the possible outcomes: result (tag "table" with
\* the handle of the IbdTable returned, or "err" with table 0), the table
\* handles afterwards and the calls of ibd_open_table made.  A handle that
\* ibd_open_table stored and open_table did not return has owner "partial".
IbdReader_open_table(r, owner, ibd_path, sdi_path, ans, ts) ==
  LET ibd_cstr == path_to_cstring(ibd_path)
      sdi_cstr == path_to_cstring(sdi_path)
      h == Len(ts) + 1
      fail(e, tabs, n) ==
        [result |-> [tag |-> "err", err |-> e, table |-> 0],
         tables |-> tabs, opens |-> n]
  IN IF ibd_cstr.tag = "err"
       THEN {fail(ibd_cstr.err, ts, 0)}
       ELSE IF sdi_cstr.tag = "err"
         THEN {fail(sdi_cstr.err, ts, 0)}
         ELSE { IF t.tag = "table"
                  THEN [result |-> [tag |-> "table", err |-> NoErr, table |-> h],
                        tables |-> Append(ts, NewTable(owner, r)),
                        opens |-> 1]
                  ELSE IF t.opened
                    THEN fail(t.err,
                              close_on_info_error(
                                Append(ts, NewTable("partial", r)), h),
                              1)
                    ELSE fail(t.err, ts, 1) :
                t \in open_table_result(ans) }

\* What the native library may answer to an open_table: ibd_open_table
\* fails; it stores a null handle; ibd_get_table_info fails; all succeed;
\* ibd_get_column_info fails on the second column.
OpenAnswers ==
  { NativeAnswer(FALSE, -2, FALSE, 0, "", <<>>),
    NativeAnswer(FALSE, 0, TRUE, 0, "", <<>>),
    NativeAnswer(FALSE, 0, FALSE, -5, "", <<>>),
    SimpleAnswer(0),
    NativeAnswer(FALSE, 0, FALSE, 0, "mytable",
                 <<NativeColumn(0, "id", 1), NativeColumn(-3, "", 0)>>) }

\* The inputs of an open_table: the two paths and the native answer (none
\* when a path is refused, since no native call is made).
OpenInputs ==
  { [ibd_path |-> p, sdi_path |-> q, ans |-> a] :
      p \in Paths, q \in Paths, a \in OpenAnswers \cup {NoAnswer} }

OpenInputOk(i) ==
  LET refused == path_to_cstring(i.ibd_path).tag = "err"
                 \/ path_to_cstring(i.sdi_path).tag = "err"
  IN (i.ans = NoAnswer) <=> refused

\* A caller opens a table on the reader IbdReader::new returned to it.
OpenTable(t, i) ==
  /\ thread[t].pc = "idle"
  /\ thread[t].result = "ok"
  /\ ~thread[t].opened
  /\ OpenInputOk(i)
  /\ \E o \in IbdReader_open_table(thread[t].reader, t, i.ibd_path, i.sdi_path,
                                    i.ans, tables) :
       /\ tables' = o.tables
       /\ nopen' = nopen + o.opens
       /\ call' = [fn |-> "open_table", ibd_path |-> i.ibd_path,
                   sdi_path |-> i.sdi_path, ans |-> i.ans, result |-> o.result]
  /\ thread' = [thread EXCEPT ![t].opened = TRUE]
  /\ UNCHANGED <<provider, readers, stream, out, lastPull, lib>>

\* The table handles a caller holds in an IbdTable.
TablesOf(t) ==
  {h \in 1..Len(tables) : tables[h].owner = t /\ tables[h].closes = 0}

\* The caller drops an IbdTable it holds.
DropTable(t, h) ==
  /\ h \in TablesOf(t)
  /\ tables' = drop_IbdTable(tables, h, readers)
  /\ UNCHANGED <<provider, readers, nopen, stream, out, lastPull, call, lib,
                 thread>>

\* The caller of the binding.
Caller == "t1"

NextOpen ==
  \/ NewBegin(Caller)
  \/ CallOnce(Caller)
  \/ \E code \in InitCodes : IbdInit(Caller, code)
  \/ CheckInit(Caller)
  \/ \E isNull \in BOOLEAN : ReaderCreate(Caller, isNull)
  \/ \E i \in OpenInputs : OpenTable(Caller, i)
  \/ \E h \in 1..Len(tables) : DropTable(Caller, h)

SpecOpen == Init /\ [][NextOpen]_vars

\* ------------------------------------------------ executes that fail

\* What the native library may answer when a scan is executed: those of
\* OpenAnswers, and a null reader context from ibd_reader_create.
ExecAnswers == OpenAnswers \cup {NativeAnswer(TRUE, 99, FALSE, 0, "", <<>>)}

\* scan without filters and limit, then execute, for a native answer.
ExecuteOn(s, projection, ans) ==
  /\ StartStreamOn(s, projection, <<>>, NoLimit, ans)
  /\ UNCHANGED provider

\* The projections of a scan that asks for no column, and for all.
EmptyProjections == {SomeProjection(<<>>), NoProjection}

\* Scans whose projection may be the empty list.
NextEmpty ==
  \/ ProviderTryNew(0)
  \/ \E s \in Streams, projection \in EmptyProjections :
       Execute(s, projection, 0)
  \/ \E s \in Streams : Pull(s)
  \/ \E s \in Streams : DropStream(s)

SpecEmpty == Init /\ [][NextEmpty]_vars

NextExec ==
  \/ ProviderTryNew(0)
  \/ \E s \in Streams, ans \in ExecAnswers : ExecuteOn(s, NoProjection, ans)
  \/ \E s \in Streams : Pull(s)
  \/ \E s \in Streams : DropStream(s)

SpecExec == Init /\ [][NextExec]_vars

\* ------------------------------------------------ polls from several threads

\* A thread is in a poll of the stream.
Polling(t, s) == thread[t].pc = "poll" /\ thread[t].polls = s

\* A thread starts a poll of a stream.  poll_next takes Pin<&mut Self>: a
\* stream that a thread is polling cannot be polled by another.  From here
\* to the end of the poll the native calls of read_next_batch on the
\* stream's handle are in progress.
BeginPoll(t, s) ==
  /\ thread[t].pc = "idle"
  /\ stream[s].exists = "open"
  /\ PullsOf(Streams) < MaxPulls
  /\ \A u \in Threads : ~Polling(u, s)
  /\ thread' = [thread EXCEPT ![t].pc = "poll", ![t].polls = s]
  /\ UNCHANGED <<provider, readers, tables, nopen, stream, out, lastPull, call,
                 lib>>

\* The poll returns: read_next_batch has run to its end (it awaits nothing).
EndPoll(t, s) ==
  /\ Polling(t, s)
  /\ poll_next(s)
  /\ thread' = [thread EXCEPT ![t].pc = "idle", ![t].polls = ""]

\* The owner of a stream drops it; a stream being polled is borrowed and
\* cannot be dropped.
DropIdleStream(s) ==
  /\ \A u \in Threads : ~Polling(u, s)
  /\ DropStream(s)

NextPoll ==
  \/ ProviderTryNew(0)
  \/ \E s \in Streams, code \in OpenCodes : Execute(s, NoProjection, code)
  \/ \E t \in Threads, s \in Streams : BeginPoll(t, s)
  \/ \E t \in Threads, s \in Streams : EndPoll(t, s)
  \/ \E s \in Streams : DropIdleStream(s)

SpecPoll == Init /\ [][NextPoll]_vars

\* ------------------------------------------------ scans with arguments

\* The filters and limit a scan may be given: none; one filter and a limit
\* of one row.
ScanArgs ==
  {[filters |-> <<>>, limit |-> NoLimit],
   [filters |-> <<"id = 1">>, limit |-> SomeLimit(1)]}

NextScan ==
  \/ ProviderTryNew(0)
  \/ \E s \in Streams, a \in ScanArgs, code \in OpenCodes :
       ScanExecute(s, NoProjection, a.filters, a.limit, code)
  \/ \E s \in Streams : Pull(s)
  \/ \E s \in Streams : DropStream(s)

SpecScan == Init /\ [][NextScan]_vars

\* The table names a query may reference.
QueryNames == {"mytable", "ibd_table", "other"}

\* DataFusionRunner::run_query_collect of a query that references the table
\* name: the session resolves the name to the provider registered under it
\* and scans that provider, so the rows read are those of the provider's
\* table (table: its declared name, "" when the name resolves to no
\* provider of this model).
run_query_collect(name) ==
  /\ provider.state # "none"
  /\ call' = [fn |-> "run_query_collect", name |-> name,
              table |-> IF provider.registered # "" /\ provider.registered = name
                          THEN provider.table_name
                          ELSE ""]
  /\ UNCHANGED <<provider, readers, tables, nopen, stream, out, lastPull,
                 lib, thread>>

NextSchema ==
  \/ \E ans \in NativeAnswers : ProviderTryNewOn(ans)
  \/ \E table_name \in TableNames, taken \in BOOLEAN, ans \in NativeAnswers :
       register_ibd(table_name, taken, ans)
  \/ \E name \in QueryNames : run_query_collect(name)

SpecSchema == Init /\ [][NextSchema]_vars

\* ------------------------------------------------------ observations

\* The stream was created by a successful execute.
Started(s) == stream[s].exists \in {"open", "dropped"}

\* The table handle of a started stream.
Tab(s) == tables[stream[s].table]

\* Some pull of the stream returned None or an error.
HasEnded(s) == \E i \in 1..Len(out[s]) : out[s][i].kind \in {"none", "err"}

\* Some pull of the stream returned an error.
ErrAt(s) == \E i \in 1..Len(out[s]) : out[s][i].kind = "err"

\* The stream has reached Done: a pull observed EndOfData or an error, or
\* returned None.
ReachedDone(s) == Started(s) /\ (HasEnded(s) \/ Tab(s).seen \in {"eod", "err"})

\* The stream is Active: it exists, holds its state and the state is not done.
Active(s) == stream[s].exists = "open" /\ stream[s].held /\ ~stream[s].done

\* The native calls made so far on the stream's handle.
Calls(s) == <<Tab(s).reads, Tab(s).cells, Tab(s).cursor>>

\* A pull on a finished stream: it returns None and makes no native call.
QuietPull(s) ==
  /\ out'[s] = Append(out[s], Logged(None))
  /\ nopen' = nopen
  /\ Len(tables') = Len(tables)

\* The rows of the batches a log holds, in the order they were returned.
RECURSIVE Flat(_)
Flat(log) ==
  IF log = <<>> THEN <<>> ELSE Head(log).rows \o Flat(Tail(log))

\* The rows the row reader has returned on the stream's handle so far, in
\* order (rows are numbered by the cursor), and those among them it had
\* returned before a given cursor position.
RowsUpTo(n) == [i \in 1..n |-> i]

RowsReturned(s) == RowsUpTo(Tab(s).cursor)

\* ------------------------------------------------------------- claims

\* C1: when the row reader has returned N rows and then EndOfData on a
\* stream of batch size B, with no error, the pulls so far returned
\* floor(N/B) batches of exactly B rows, then one batch of N mod B rows if
\* that is positive, then only None (and at least one None when N mod B = 0:
\* the pull that observed EndOfData).
C1_BatchSizes ==
  \A s \in Streams :
    (Started(s) /\ Tab(s).seen = "eod") =>
      LET N == Tab(s).cursor
          B == stream[s].batch_size
          full == N \div B
          rem == N % B
          nb == full + (IF rem > 0 THEN 1 ELSE 0)
      IN /\ Len(out[s]) >= (IF rem = 0 THEN nb + 1 ELSE nb)
         /\ \A i \in 1..Len(out[s]) :
              IF i <= nb
                THEN /\ out[s][i].kind = "batch"
                     /\ Len(out[s][i].rows) = (IF i <= full THEN B ELSE rem)
                ELSE out[s][i].kind = "none"

\* C1 witness: 2B+1 rows then EndOfData (B = 2: five rows), pulled as two
\* full batches, a batch of one row and None.
C1_Witness ==
  \E s \in Streams :
    /\ Started(s) /\ Tab(s).seen = "eod"
    /\ Tab(s).cursor = 2 * stream[s].batch_size + 1
    /\ Len(out[s]) = 4
    /\ Len(out[s][3].rows) = 1
    /\ out[s][4].kind = "none"

\* C2: no batch of zero rows is ever returned; when the row reader returned
\* an exact multiple N of the batch size B (zero included) and then
\* EndOfData, the pulls returned exactly N/B batches and then None.
C2_NoEmptyBatch ==
  \A s \in Streams :
    /\ \A i \in 1..Len(out[s]) :
         out[s][i].kind = "batch" => Len(out[s][i].rows) > 0
    /\ (Started(s) /\ Tab(s).seen = "eod" /\ Tab(s).cursor % stream[s].batch_size = 0) =>
         LET nb == Tab(s).cursor \div stream[s].batch_size
         IN /\ Cardinality({i \in 1..Len(out[s]) : out[s][i].kind = "batch"}) = nb
            /\ Len(out[s]) > nb
            /\ out[s][nb + 1].kind = "none"

\* C2 witness: exactly B rows then EndOfData, pulled as one batch and None.
C2_Witness ==
  \E s \in Streams :
    /\ Started(s) /\ Tab(s).seen = "eod"
    /\ Tab(s).cursor = stream[s].batch_size
    /\ Len(out[s]) = 2
    /\ out[s][1].kind = "batch" /\ out[s][2].kind = "none"

\* C3: once a stream has reached Done it is never Active again, no
\* ibd_read_row or ibd_row_get_column call is made on its handle and its
\* cursor stays, and every later pull returns None without opening a table.
C3_DoneIsFinal ==
  [][\A s \in Streams :
       ReachedDone(s) =>
         /\ ~Active(s)'
         /\ Calls(s)' = Calls(s)
         /\ (out'[s] # out[s] => QuietPull(s))]_vars

\* C3 witness: a pull returned a partial batch (EndOfData seen), the next
\* returned None, and one more pull returned None again.
C3_Witness ==
  \E s \in Streams :
    LET n == Len(out[s])
    IN /\ n >= 3
       /\ out[s][n - 2].kind = "batch"
       /\ Len(out[s][n - 2].rows) < stream[s].batch_size
       /\ out[s][n - 1].kind = "none"
       /\ out[s][n].kind = "none"

\* C4: when next_row or get has failed on a stream, the pull in which it
\* failed returned the error and no batch: the pulls before it returned
\* batches, none after it did, and no row read in the failing pull (the rows
\* after pullStart) is in any batch.
C4_NoBatchOnError ==
  \A s \in Streams :
    (Started(s) /\ Tab(s).seen = "err") =>
      /\ \E k \in 1..Len(out[s]) :
           /\ out[s][k] = Logged(Failed(NoErr))
           /\ \A i \in 1..Len(out[s]) :
                /\ i < k => out[s][i].kind = "batch"
                /\ i > k => out[s][i].kind = "none"
      /\ \A i \in 1..Len(out[s]) :
           \A j \in 1..Len(out[s][i].rows) : out[s][i].rows[j] <= Tab(s).pullStart
      /\ (lastPull.s = s /\ lastPull.result.kind = "err") => lastPull.result.rows = <<>>

\* C4 witness: after a full batch, a pull read one more row and then met an
\* error; that row is in no batch.
C4_Witness ==
  \E s \in Streams :
    /\ Started(s) /\ Tab(s).seen = "err"
    /\ Tab(s).pullStart = stream[s].batch_size
    /\ Tab(s).cursor > Tab(s).pullStart
    /\ Len(out[s]) = 2
    /\ out[s][2].kind = "err"

\* C5: once a pull has returned an error, the stream holds no state and its
\* handle is closed, and every later pull returns None without any native
\* call (the tables are left as they are).
C5_ErrorEndsStream ==
  /\ [](\A s \in Streams :
          ErrAt(s) => (~stream[s].held /\ ~Active(s) /\ Tab(s).closes = 1))
  /\ [][\A s \in Streams :
          (ErrAt(s) /\ out'[s] # out[s]) =>
            (QuietPull(s) /\ tables' = tables)]_vars

\* C5 witness: two full batches, an error on the third pull, None on the
\* fourth.
C5_Witness ==
  \E s \in Streams :
    /\ Len(out[s]) = 4
    /\ out[s][1].kind = "batch" /\ Len(out[s][1].rows) = stream[s].batch_size
    /\ out[s][2].kind = "batch" /\ Len(out[s][2].rows) = stream[s].batch_size
    /\ out[s][3].kind = "err"
    /\ out[s][4].kind = "none"
    /\ Tab(s).closes = 1

\* C6: no table handle is closed twice, and the handle a stream opened has
\* been closed once when the stream is over: a pull returned None or an
\* error, or the consumer dropped the stream (Active or not).
C6_ClosedExactlyOnce ==
  /\ \A h \in 1..Len(tables) : tables[h].closes <= 1
  /\ \A s \in Streams :
       (Started(s) /\ (stream[s].exists = "dropped" \/ HasEnded(s))) =>
         Tab(s).closes = 1

\* C6 witness: a stream dropped while Active (it had returned a batch and
\* seen neither EndOfData nor an error) has its handle closed once.
C6_Witness ==
  \E s \in Streams :
    /\ stream[s].exists = "dropped"
    /\ Len(out[s]) = 1 /\ out[s][1].kind = "batch"
    /\ Tab(s).seen = ""
    /\ Tab(s).closes = 1

\* C7 as stated: once a pull has observed EndOfData (with or without rows)
\* or an error, the handle is closed when that pull returns.
C7_ClosedOnFirstDone ==
  \A s \in Streams :
    (Started(s) /\ Tab(s).seen \in {"eod", "err"}) => Tab(s).closes = 1

\* C7 amended: the handle is closed when a pull returns None or an error;
\* a pull that observed EndOfData after at least one row returns the partial
\* batch with the handle still open, and the handle is closed by the next
\* pull (which returns None) or by the drop of the stream.
C7_ClosedWhenPullEnds ==
  \A s \in Streams :
    Started(s) =>
      /\ HasEnded(s) => Tab(s).closes = 1
      /\ (stream[s].exists = "open" /\ Tab(s).seen = "eod" /\ ~HasEnded(s)) =>
           /\ Tab(s).closes = 0
           /\ out[s][Len(out[s])].kind = "batch"
      /\ (stream[s].exists = "dropped" /\ Tab(s).seen = "eod") => Tab(s).closes = 1

\* C7 witness: a partial batch, then None, and the handle is closed.
C7_Witness ==
  \E s \in Streams :
    LET n == Len(out[s])
    IN /\ n >= 2
       /\ Started(s) /\ Tab(s).seen = "eod"
       /\ out[s][n - 1].kind = "batch"
       /\ Len(out[s][n - 1].rows) < stream[s].batch_size
       /\ out[s][n].kind = "none"
       /\ Tab(s).closes = 1

\* C8: every started stream reads through a table handle that its own
\* execute opened: not the handle of the schema derivation, not the handle
\* of another stream; every successful open made a new handle; and the first
\* batch of a stream starts at the first row of the table.
C8_OwnHandle ==
  /\ Len(tables) =
       (IF provider.state = "ready" THEN 1 ELSE 0)
         + Cardinality({s \in Streams : Started(s)})
  /\ \A s \in Streams :
       Started(s) =>
         /\ stream[s].table \in 1..Len(tables)
         /\ Tab(s).owner = s
         /\ \A t \in Streams \ {s} : Started(t) => stream[t].table # stream[s].table
         /\ (Len(out[s]) >= 1 /\ out[s][1].kind = "batch") => out[s][1].rows[1] = 1

\* C8 witness: two streams of the same provider, each having returned a
\* first batch, the second started after the first had read.
C8_Witness ==
  /\ Len(tables) = 3
  /\ \A s \in Streams :
       /\ Started(s)
       /\ Len(out[s]) >= 1
       /\ out[s][1].kind = "batch"
       /\ Tab(s).cursor >= 1

\* C9 as stated: a pull whose last ibd_read_row returned ErrorFileRead (-3)
\* returns an error, and the stream has not seen EndOfData.
C9_ReadErrorIsError ==
  (lastPull.s # "" /\ lastPull.o.code = -3) =>
    (lastPull.result.kind = "err" /\ Tab(lastPull.s).seen # "eod")

\* C10 as stated: a pull whose last ibd_read_row returned EndOfStream (1)
\* does not return an error.
C10_EndOfStreamIsNotError ==
  (lastPull.s # "" /\ lastPull.o.code = 1) => lastPull.result.kind # "err"

\* C11 as stated: for every stream, the rows of its batches, concatenated
\* in the order the batches were returned, are the rows the row reader
\* returned on its handle, in order, each once.
C11_AllRowsDelivered ==
  \A s \in Streams : Started(s) => Flat(out[s]) = RowsReturned(s)

\* C11 amended: the rows of the batches, concatenated in the order the
\* batches were returned, are in the reader's order, each once, the rows the
\* reader returned before the pull that failed (all the rows it returned
\* when no pull failed): the rows read in a failing pull are in no batch.
C11_RowsInOrder ==
  \A s \in Streams :
    Started(s) =>
      Flat(out[s]) =
        (IF Tab(s).seen = "err" THEN RowsUpTo(Tab(s).pullStart) ELSE RowsReturned(s))

\* C11 witness: a stream that returned a full batch and a partial one, with
\* no error, one row more than the batch size in all.
C11_Witness ==
  \E s \in Streams :
    /\ Started(s) /\ Tab(s).seen = "eod"
    /\ Len(out[s]) >= 2
    /\ out[s][1].kind = "batch" /\ out[s][2].kind = "batch"
    /\ Tab(s).cursor = stream[s].batch_size + 1
    /\ Flat(out[s]) = RowsReturned(s)

\* The native column is not an internal one (type code 99, Internal).
NotInternal(c) == c.col_type # 99

\* C12: for every catalog the native library reports, the schema of the
\* constructed provider has no field of an Internal column, has a field for
\* every other column, in catalog order, and its length is the length of
\* the catalog minus the number of Internal columns.
C12_ExposedSchema ==
  provider.state = "ready" =>
    LET cat == provider.native.cols
        vis == SelectSeq(cat, NotInternal)
        sch == provider.schema
    IN /\ Len(sch) = Len(cat) - Cardinality({i \in 1..Len(cat) : cat[i].col_type = 99})
       /\ Len(sch) = Len(vis)
       /\ \A k \in 1..Len(sch) : sch[k].name = vis[k].name
       /\ \A k \in 1..Len(sch), i \in 1..Len(cat) :
            cat[i].col_type = 99 => sch[k].name # cat[i].name

\* C12 witness: a catalog of three columns with an Internal column in the
\* middle gives a schema of two fields.
C12_Witness ==
  /\ provider.state = "ready"
  /\ Len(provider.native.cols) = 3
  /\ provider.native.cols[2].col_type = 99
  /\ Len(provider.schema) = 2
  /\ provider.schema[2].name = provider.native.cols[3].name

\* C13: the column mapping has one entry per field of the schema, for the
\* same column (the visible indices are the positions 0..len-1 of both), and
\* the physical indices (ibd_index) strictly increase along it.
C13_IndicesIncrease ==
  provider.state = "ready" =>
    LET m == provider.column_mapping
    IN /\ DOMAIN m = 1..Len(provider.schema)
       /\ \A k \in 1..Len(m) : m[k].name = provider.schema[k].name
       /\ \A j, k \in 1..Len(m) : j < k => m[j].ibd_index < m[k].ibd_index

\* C13 witness: a catalog with an Internal column and at least two visible
\* columns.
C13_Witness ==
  /\ provider.state = "ready"
  /\ Len(provider.column_mapping) >= 2
  /\ Len(provider.column_mapping) < Len(provider.native.cols)

\* The position (0-based) in the catalog of the k-th column that is not
\* internal.
RECURSIVE CatalogPosition(_, _, _)
CatalogPosition(cat, k, i) ==
  IF NotInternal(cat[i + 1])
    THEN IF k = 1 THEN i ELSE CatalogPosition(cat, k - 1, i + 1)
    ELSE CatalogPosition(cat, k, i + 1)

\* C14 as stated: the physical index of a visible column counts the
\* Internal columns skipped before it (it is the column's catalog position):
\* for [DB_TRX_ID(Internal), id(Int), name(String)] the mapping is
\* [(id, Int, 1), (name, String, 2)].
C14_CountsSkipped ==
  provider.state = "ready" =>
    /\ \A k \in 1..Len(provider.column_mapping) :
         provider.column_mapping[k].ibd_index =
           CatalogPosition(provider.native.cols, k, 0)
    /\ provider.native.cols = NativeCatalog =>
         provider.column_mapping =
           << [name |-> "id", col_type |-> "Int", ibd_index |-> 1],
              [name |-> "name", col_type |-> "String", ibd_index |-> 2] >>

\* C14 amended: the physical index of a visible column counts the columns
\* that are not Internal before it (it is the position of its cell in the
\* row data, which leaves the Internal columns out), so it equals the
\* visible index: for [DB_TRX_ID(Internal), id(Int), name(String)] the
\* mapping is [(id, Int, 0), (name, String, 1)], of Arrow types Int64, Utf8.
C14_CountsVisibleOnly ==
  provider.state = "ready" =>
    /\ \A k \in 1..Len(provider.column_mapping) :
         provider.column_mapping[k].ibd_index = k - 1
    /\ provider.native.cols = NativeCatalog =>
         /\ provider.column_mapping =
              << [name |-> "id", col_type |-> "Int", ibd_index |-> 0],
                 [name |-> "name", col_type |-> "String", ibd_index |-> 1] >>
         /\ provider.schema =
              << Field("id", "Int64", TRUE), Field("name", "Utf8", TRUE) >>

\* C14 witness: the provider of the catalog [DB_TRX_ID(Internal), id(Int),
\* name(String)].
C14_Witness ==
  /\ provider.state = "ready"
  /\ provider.native.cols = NativeCatalog
  /\ Len(provider.column_mapping) = 2
  /\ provider.column_mapping[2].ibd_index = 1

\* C15: for a stream started with a projection p, the k-th field of the
\* batch schema is field p[k] of the provider's schema and the k-th column
\* of its batches is built from visible column p[k], read at that column's
\* physical index: the order of p is kept.
C15_ProjectionOrder ==
  \A s \in Streams :
    (Started(s) /\ stream[s].projection.some) =>
      LET p == stream[s].projection.indices
      IN /\ Len(stream[s].schema) = Len(p)
         /\ Len(stream[s].projected_columns) = Len(p)
         /\ \A k \in 1..Len(p) :
              /\ stream[s].schema[k] = provider.schema[p[k] + 1]
              /\ stream[s].projected_columns[k].ibd_index =
                   provider.column_mapping[p[k] + 1].ibd_index
              /\ stream[s].projected_columns[k].col_type =
                   provider.column_mapping[p[k] + 1].col_type

\* C15 witness: a stream with the projection [1, 0] has returned a batch;
\* its first column is name (read at physical index 1), its second is id.
C15_Witness ==
  \E s \in Streams :
    /\ Started(s)
    /\ stream[s].projection = SomeProjection(<<1, 0>>)
    /\ Len(out[s]) >= 1 /\ out[s][1].kind = "batch"
    /\ stream[s].schema[1].name = "name" /\ stream[s].schema[2].name = "id"
    /\ stream[s].projected_columns[1].ibd_index = 1
    /\ stream[s].projected_columns[2].ibd_index = 0

\* C16: for a stream started without a projection, the batch schema is the
\* provider's schema and the columns of its batches are built from all the
\* visible columns, in schema order.
C16_NoProjection ==
  \A s \in Streams :
    (Started(s) /\ ~stream[s].projection.some) =>
      /\ stream[s].schema = provider.schema
      /\ Len(stream[s].projected_columns) = Len(provider.column_mapping)
      /\ \A k \in 1..Len(provider.column_mapping) :
           /\ stream[s].projected_columns[k].ibd_index =
                provider.column_mapping[k].ibd_index
           /\ stream[s].projected_columns[k].col_type =
                provider.column_mapping[k].col_type

\* C16 witness: a stream without projection has returned a batch of the two
\* visible columns id and name.
C16_Witness ==
  \E s \in Streams :
    /\ Started(s)
    /\ ~stream[s].projection.some
    /\ Len(out[s]) >= 1 /\ out[s][1].kind = "batch"
    /\ Len(stream[s].schema) = 2
    /\ stream[s].schema[1].name = "id" /\ stream[s].schema[2].name = "name"

\* C17: a cell the native library flags null (is_null not 0) is read as
\* ColumnValue::Null and pushed as a null entry, whatever the builder (Int,
\* UInt, Float, String) and whatever the cell's type code: never a text
\* ("NULL" or other), never a number, and get does not fail.
C17_NullStaysNull ==
  (call.fn = "push" /\ call.cellCode = 0 /\ call.cell.is_null # 0) =>
    /\ call.got = "value"
    /\ call.value.tag = "Null"
    /\ ~call.entry.some
    /\ call.entry = NoneEntry

\* C17 witness: a null cell of type DateTime, in a column with a String
\* builder, was pushed as a null entry.
C17_Witness ==
  /\ call.fn = "push"
  /\ call.builder = "String"
  /\ call.cell.is_null = 1
  /\ call.cell.col_type = 7
  /\ call.entry = NoneEntry

\* C18: every type code a column may be declared with has an Arrow type:
\* Int64 for Int (1), UInt64 for UInt (2), Float64 for Float and Double (3,
\* 4), Utf8 for every other code, a code that is none of IbdColumnType
\* included.
C18_TypeCoercion ==
  call.fn \in {"with_capacity", "push"} =>
    call.data_type =
      (CASE call.declared = 1 -> "Int64"
         [] call.declared = 2 -> "UInt64"
         [] call.declared \in {3, 4} -> "Float64"
         [] OTHER -> "Utf8")

\* C18 witness: a column declared with the unrecognised code 50 is a Utf8
\* column.
C18_Witness ==
  /\ call.fn = "with_capacity"
  /\ call.declared = 50
  /\ call.data_type = "Utf8"

\* C19: supports_filters_pushdown returns Ok of a list as long as the list
\* of predicates, every verdict Unsupported.
C19_FiltersUnsupported ==
  call.fn = "supports_filters_pushdown" =>
    /\ call.result.tag = "ok"
    /\ Len(call.result.verdicts) = Len(call.filters)
    /\ \A i \in 1..Len(call.filters) : call.result.verdicts[i] = "Unsupported"

\* C19 witness: two predicates, two verdicts Unsupported.
C19_Witness ==
  /\ call.fn = "supports_filters_pushdown"
  /\ Len(call.filters) = 2
  /\ call.result.verdicts = <<"Unsupported", "Unsupported">>

\* The native answer makes the open or the enumeration of the catalog fail,
\* and the kind of IbdError the first failing step stands for.
AnswerFails(ans) ==
  \/ ans.readerNull
  \/ ans.open # 0
  \/ ans.handleNull
  \/ ans.info # 0
  \/ \E i \in 1..Len(ans.cols) : ans.cols[i].code # 0

ErrorKindOf(code) ==
  CASE code = -2 -> "FileNotFound"
    [] code = -3 -> "FileRead"
    [] code = -5 -> "InvalidFormat"

FailureKind(ans) ==
  IF ans.readerNull THEN "Memory"
  ELSE IF ans.open # 0 THEN ErrorKindOf(ans.open)
  ELSE IF ans.handleNull THEN "Memory"
  ELSE IF ans.info # 0 THEN ErrorKindOf(ans.info)
  ELSE ErrorKindOf(ans.cols[CHOOSE i \in 1..Len(ans.cols) : ans.cols[i].code # 0].code)

\* C20: when the native answer makes the open or the enumeration of the
\* catalog fail, the construction returns the error of the failing step: no
\* provider exists (no name, no schema, no column mapping), nothing is
\* registered in the session, and register_ibd returns that error's text.
C20_ConstructionFails ==
  (provider.state # "none" /\ AnswerFails(provider.native)) =>
    /\ provider.state = "failed"
    /\ provider.err.kind = FailureKind(provider.native)
    /\ provider.table_name = ""
    /\ provider.schema = <<>>
    /\ provider.column_mapping = <<>>
    /\ provider.registered = ""
    /\ provider.reg_err \in
         {NoErr, Err("IbdReader", IbdError_to_string(provider.err))}

\* C20 witness: register_ibd on a table whose third ibd_get_column_info
\* fails, after two columns were read: the error is returned and nothing is
\* registered.
C20_Witness ==
  /\ provider.state = "failed"
  /\ Len(provider.native.cols) = 3
  /\ provider.native.cols[3].code # 0
  /\ provider.err.kind = "FileRead"
  /\ provider.reg_err.kind = "IbdReader"
  /\ provider.registered = ""
  /\ provider.schema = <<>>

\* A stream holds the table handle h.
HeldByStream(h) == \E s \in Streams : stream[s].held /\ stream[s].table = h

\* C21: when the construction of the provider has returned, with a provider
\* or with an error, every handle it opened has been closed, once and before
\* its reader was destroyed; and every handle that no stream holds is
\* closed, so that no handle is open while no stream exists.
C21_SchemaHandleClosed ==
  /\ \A h \in 1..Len(tables) :
       /\ tables[h].owner = "schema" =>
            (tables[h].closes = 1 /\ ~tables[h].lateClose)
       /\ ~HeldByStream(h) => tables[h].closes = 1
  /\ provider.state = "ready" =>
       \E h \in 1..Len(tables) : tables[h].owner = "schema"

\* C21 witness: a constructed provider; its construction opened one handle
\* and made no row read on it, and the handle is closed.
C21_Witness ==
  /\ provider.state = "ready"
  /\ Len(provider.schema) >= 1
  /\ Len(tables) = 1
  /\ tables[1].owner = "schema"
  /\ tables[1].closes = 1
  /\ tables[1].reads = 0

\* The pull of stream s made in this step returned an error.
PullFailed(s) ==
  /\ out'[s] # out[s]
  /\ out'[s][Len(out'[s])].kind = "err"

\* C22: a pull of one stream that returns an error leaves the provider and
\* every other stream as they are: their state, their handle (cursor, call
\* counts, open or closed) and what they returned; afterwards a stream with
\* no error of its own has still delivered every row its reader returned,
\* and a stream not yet started can be started.
C22_ErrorIsLocal ==
  /\ [][\A s \in Streams :
          PullFailed(s) =>
            /\ provider' = provider
            /\ \A t \in Streams \ {s} :
                 /\ stream'[t] = stream[t]
                 /\ out'[t] = out[t]
                 /\ Started(t) => tables'[stream[t].table] = tables[stream[t].table]]_vars
  /\ [](\A s \in Streams : \A t \in Streams \ {s} :
          ErrAt(s) =>
            /\ (Started(t) /\ Tab(t).seen # "err") => Flat(out[t]) = RowsReturned(t)
            /\ (Started(t) /\ stream[t].exists = "open" /\ ~HasEnded(t)) =>
                 (stream[t].held /\ Tab(t).closes = 0)
            /\ stream[t].exists = "none" => ENABLED Execute(t, NoProjection, 0))

\* C22 witness: stream t was started before stream s; s has failed, and the
\* latest pull, made on t after that, returned a batch.
C22_Witness ==
  \E s \in Streams : \E t \in Streams \ {s} :
    /\ ErrAt(s)
    /\ Started(t) /\ stream[t].table < stream[s].table
    /\ lastPull.s = t /\ lastPull.result.kind = "batch"
    /\ stream[t].held
    /\ Flat(out[t]) = RowsReturned(t)

\* The rows from..to, in order.
RowsBetween(from, to) == [i \in 1..(to - from) |-> from + i]

\* C29: a stream that was opened and not pulled has made no native read; a
\* step reads rows on a stream's handle only when it is a pull of that
\* stream, and then makes at most batch_size ibd_read_row calls; the batch a
\* pull returns holds exactly the rows read in that pull, a pull that fails
\* returns none of them, and between pulls every row read is in a batch
\* unless a pull failed.
C29_NoBuffering ==
  /\ [](\A s \in Streams :
          Started(s) =>
            /\ Len(out[s]) = 0 => Calls(s) = <<0, 0, 0>>
            /\ Tab(s).seen # "err" => Len(Flat(out[s])) = Tab(s).cursor
            /\ (lastPull.s = s /\ lastPull.result.kind = "batch") =>
                 lastPull.result.rows = RowsBetween(Tab(s).pullStart, Tab(s).cursor)
            /\ (lastPull.s = s /\ lastPull.result.kind = "err") =>
                 (lastPull.result.rows = <<>>
                    /\ Flat(out[s]) = RowsUpTo(Tab(s).pullStart)))
  /\ [][\A s \in Streams :
          Started(s) =>
            /\ Calls(s)' # Calls(s) => Len(out'[s]) = Len(out[s]) + 1
            /\ Tab(s)'.reads - Tab(s).reads <= stream[s].batch_size]_vars

\* C29 witness: the first pull of a stream made batch_size reads and
\* returned them as a full batch.
C29_Witness ==
  \E s \in Streams :
    /\ Started(s)
    /\ Len(out[s]) = 1
    /\ lastPull.s = s /\ lastPull.result.kind = "batch"
    /\ Tab(s).reads = stream[s].batch_size
    /\ Len(lastPull.result.rows) = stream[s].batch_size

\* The first pull of the stream that returned None or an error.
FirstEnd(s) ==
  CHOOSE k \in 1..Len(out[s]) :
    /\ out[s][k].kind \in {"none", "err"}
    /\ \A i \in 1..(k - 1) : out[s][i].kind = "batch"

\* n divided by d, rounded up.
CeilDiv(n, d) == (n + d - 1) \div d

\* C30 as stated: a stream whose reader returned N rows and then EndOfData
\* has reached its end after at most floor(N / batch_size) + 1 pulls.
C30_EndsWithinFloor ==
  \A s \in Streams :
    (Started(s) /\ Tab(s).seen = "eod" /\ HasEnded(s)) =>
      FirstEnd(s) <= (Tab(s).cursor \div stream[s].batch_size) + 1

\* C30 amended: a stream whose reader has returned N rows has returned at
\* most ceil(N / batch_size) batches; its end (a pull returning None or an
\* error) comes after at most ceil(N / batch_size) + 1 pulls, that is
\* floor(N / batch_size) + 1 when batch_size divides N and one more when it
\* does not (the pull that returns the partial batch observes EndOfData, the
\* pull after it returns None); and its handle is closed from then on.
C30_EndsWithinCeil ==
  \A s \in Streams :
    Started(s) =>
      LET N == Tab(s).cursor
          B == stream[s].batch_size
      IN /\ Cardinality({i \in 1..Len(out[s]) : out[s][i].kind = "batch"})
              <= CeilDiv(N, B)
         /\ HasEnded(s) =>
              /\ FirstEnd(s) <= CeilDiv(N, B) + 1
              /\ Tab(s).closes = 1
         /\ (HasEnded(s) /\ Tab(s).seen = "eod") =>
              FirstEnd(s) = CeilDiv(N, B) + 1

\* C30 witness: batch_size + 1 rows then EndOfData: a full batch, a batch
\* of one row, and the end at the third pull.
C30_Witness ==
  \E s \in Streams :
    /\ Started(s) /\ Tab(s).seen = "eod" /\ HasEnded(s)
    /\ Tab(s).cursor = stream[s].batch_size + 1
    /\ FirstEnd(s) = 3
    /\ Tab(s).closes = 1

\* The texts of Strings that do not parse as an integer, as an unsigned
\* integer, as a float.
NotInt == {"", "1.5", "abc", "NULL"}

NotUInt == NotInt \cup {"-3"}

NotFloat == {"", "abc", "NULL"}

\* C28: a cell that get returned is appended to a numeric builder as its
\* declared type says.  Int builder: Int(v) gives v, Formatted(s) gives the
\* integer s denotes, null when s denotes none.  UInt builder: the same with
\* UInt(v) and unsigned integers.  Float builder: the same with Float(v) and
\* floats (numbers in tenths).  Every cell that get returned adds exactly
\* one entry to the builder.
C28_NumericPush ==
  /\ [](LET v == call.value
            e == call.entry
        IN (call.fn = "push" /\ call.got = "value") =>
             /\ call.builder = "Int" =>
                  /\ v.tag = "Int" => e = SomeNumber(v.n)
                  /\ v.tag = "Formatted" =>
                       /\ v.s = "0" => e = SomeNumber(0)
                       /\ v.s = "12" => e = SomeNumber(12)
                       /\ v.s = "-3" => e = SomeNumber(-3)
                       /\ v.s \in NotInt => e = NoneEntry
             /\ call.builder = "UInt" =>
                  /\ v.tag = "UInt" => e = SomeNumber(v.n)
                  /\ v.tag = "Formatted" =>
                       /\ v.s = "0" => e = SomeNumber(0)
                       /\ v.s = "12" => e = SomeNumber(12)
                       /\ v.s \in NotUInt => e = NoneEntry
             /\ call.builder = "Float" =>
                  /\ v.tag = "Float" => e = SomeNumber(v.n)
                  /\ v.tag = "Formatted" =>
                       /\ v.s = "0" => e = SomeNumber(0)
                       /\ v.s = "12" => e = SomeNumber(120)
                       /\ v.s = "-3" => e = SomeNumber(-30)
                       /\ v.s = "1.5" => e = SomeNumber(15)
                       /\ v.s \in NotFloat => e = NoneEntry)
  /\ [][(call' # call /\ call'.fn = "push" /\ call'.got = "value") =>
          call'.len = call.len + 1]_vars

\* C28 witness: the second cell of an Int column is Formatted("12") and is
\* appended as 12.
C28_Witness ==
  /\ call.fn = "push"
  /\ call.builder = "Int"
  /\ call.value = ColumnValue("Formatted", 0, "12")
  /\ call.entry = SomeNumber(12)
  /\ call.len = 2

\* C26: a register_ibd that returned Ok has registered the provider under
\* the name the caller gave, or under the table's declared name when the
\* caller gave none, and a query that references that name reads the
\* provider's table; a register_ibd that returned an error registered
\* nothing.
C26_RegisteredName ==
  /\ (provider.asked.called /\ provider.reg_err = NoErr) =>
       /\ provider.state = "ready"
       /\ provider.asked.some => provider.registered = provider.asked.name
       /\ ~provider.asked.some => provider.registered = provider.native.table_name
       /\ (call.fn = "run_query_collect" /\ call.name = provider.registered) =>
            call.table = provider.native.table_name
  /\ (provider.asked.called /\ provider.reg_err # NoErr) => provider.registered = ""

\* C26 witness: register_ibd(Some("ibd_table")) on the table mytable, then a
\* query that references ibd_table reads mytable.
C26_Witness ==
  /\ provider.asked = [called |-> TRUE, some |-> TRUE, name |-> "ibd_table"]
  /\ provider.registered = "ibd_table"
  /\ provider.native.table_name = "mytable"
  /\ call.fn = "run_query_collect"
  /\ call.name = "ibd_table"
  /\ call.table = "mytable"

\* C26 witness, second case: register_ibd(None) registers under mytable.
C26_OwnNameReached ==
  /\ provider.asked = [called |-> TRUE, some |-> FALSE, name |-> ""]
  /\ provider.registered = "mytable"

\* The batches a log holds, in the order they were returned.
Batches(log) == SelectSeq(log, LAMBDA e : e.kind = "batch")

\* C27: the filters and the limit given to scan have no effect.  Two
\* streams of scans with the same projection read with the same columns and
\* batch size whatever their filters and limits, and when the row reader has
\* returned the same N rows and then EndOfData to both, they have delivered
\* the same batches; a stream of a scan with a limit has then delivered
\* every one of the N rows, also when N exceeds the limit.
C27_FiltersLimitIgnored ==
  /\ \A s, t \in Streams :
       (Started(s) /\ Started(t) /\ stream[s].projection = stream[t].projection) =>
         /\ stream[s].projected_columns = stream[t].projected_columns
         /\ stream[s].schema = stream[t].schema
         /\ stream[s].batch_size = stream[t].batch_size
         /\ (/\ Tab(s).seen = "eod"
             /\ Tab(t).seen = "eod"
             /\ Tab(s).cursor = Tab(t).cursor) =>
              Batches(out[s]) = Batches(out[t])
  /\ \A s \in Streams :
       (Started(s) /\ Tab(s).seen = "eod") =>
         Flat(out[s]) = RowsReturned(s)

\* C27 witness: a scan without filters and limit and a scan with a filter
\* and a limit of one row, each over two rows; both delivered the two rows.
C27_Witness ==
  /\ Started("s1") /\ Started("s2")
  /\ stream["s1"].filters = <<>> /\ ~stream["s1"].limit.some
  /\ stream["s2"].filters = <<"id = 1">> /\ stream["s2"].limit = SomeLimit(1)
  /\ Tab("s1").seen = "eod" /\ Tab("s2").seen = "eod"
  /\ Tab("s1").cursor = 2 /\ Tab("s2").cursor = 2
  /\ Flat(out["s2"]) = <<1, 2>>
  /\ Batches(out["s1"]) = Batches(out["s2"])

\* The handles opened to derive a schema.
SchemaHandles == {h \in 1..Len(tables) : tables[h].owner = "schema"}

\* C23: the schema and the column mapping of a constructed provider are
\* those its construction computed and no later step changes them, a failed
\* execute included; every stream reads with the columns and the schema
\* that follow from them and from its projection; and no handle is opened
\* to derive a schema after the construction.
C23_SchemaComputedOnce ==
  /\ [][provider.state = "ready" =>
          /\ provider' = provider
          /\ SchemaHandles' = SchemaHandles]_vars
  /\ [](provider.state = "ready" =>
          \A s \in Streams :
               Started(s) =>
                 /\ stream[s].projected_columns =
                      projected_columns_of(provider.column_mapping,
                                           stream[s].projection)
                 /\ stream[s].schema =
                      project_schema(provider.schema, stream[s].projection))

\* C23 witness: after an execute whose open failed, and after a stream was
\* started, pulled and dropped, the provider has its two fields and its
\* mapping of two columns.
C23_Witness ==
  /\ provider.state = "ready"
  /\ stream["s1"].exists = "failed"
  /\ stream["s2"].exists = "dropped"
  /\ Len(out["s2"]) >= 1
  /\ Len(provider.schema) = 2
  /\ Len(provider.column_mapping) = 2
  /\ provider.column_mapping[1].name = "id"

\* C24: ibd_init is called at most once, whatever the number and the
\* interleaving of the calls of IbdReader::new; a new reads INIT_RESULT
\* only when the initialisation is complete and reads the value that call
\* stored; and when the initialisation failed every new returns
\* IbdError::Library, no reader is created and no table handle is opened.
C24_InitOnce ==
  /\ lib.init_calls <= 1
  /\ lib.init_calls = 1 <=> lib.once = "complete"
  /\ \A t \in Threads :
       /\ thread[t].pc \in {"check", "create"} => lib.once = "complete"
       /\ thread[t].observed.some =>
            (lib.once = "complete" /\ thread[t].observed.code = lib.INIT_RESULT)
       /\ thread[t].result = "ok" => lib.INIT_RESULT = 0
  /\ (lib.once = "complete" /\ lib.INIT_RESULT # 0) =>
       /\ readers = <<>>
       /\ tables = <<>>
       /\ nopen = 0
       /\ \A t \in Threads :
            /\ thread[t].result \in {"", "Library"}
            /\ (thread[t].pc = "idle" /\ thread[t].news > 0) =>
                 thread[t].result = "Library"

\* C24 witness: two threads were in IbdReader::new together, one of them ran
\* ibd_init, which failed; both calls, and a later one, returned an error.
C24_Witness ==
  /\ lib.init_calls = 1
  /\ lib.INIT_RESULT = -10
  /\ thread["t1"].pc = "idle" /\ thread["t1"].news = 2
  /\ thread["t1"].result = "Library"
  /\ thread["t2"].pc = "idle" /\ thread["t2"].news = 1
  /\ thread["t2"].result = "Library"

\* C24 witness, second case: ibd_init ran once and succeeded, and the
\* readers of three calls exist, one with a table handle.
C24_ReadersAfterOneInit ==
  /\ lib.init_calls = 1
  /\ lib.INIT_RESULT = 0
  /\ Len(readers) = 3
  /\ Len(tables) = 1

\* The threads with native calls in progress on the table handle h: those
\* in a poll of a stream whose state holds h.
InProgressOn(h) ==
  {t \in Threads : thread[t].pc = "poll"
                   /\ stream[thread[t].polls].held
                   /\ stream[thread[t].polls].table = h}

\* C25: at no time two threads have native calls in progress on the same
\* table handle, also while several streams are polled at the same time:
\* the streams that hold a state hold different handles, no handle of a
\* stream is the one the schema was derived with, and no stream is polled by
\* two threads at once.
C25_OneCallPerHandle ==
  /\ \A h \in 1..(Len(tables) + 1) : Cardinality(InProgressOn(h)) <= 1
  /\ \A s, u \in Streams :
       (s # u /\ stream[s].held /\ stream[u].held) =>
         stream[s].table # stream[u].table
  /\ \A s \in Streams :
       stream[s].held =>
         (stream[s].table \in 1..Len(tables) /\ Tab(s).owner = s)
  /\ \A t, u \in Threads :
       (t # u /\ thread[t].pc = "poll" /\ thread[u].pc = "poll") =>
         thread[t].polls # thread[u].polls

\* C25 witness: two threads are in polls of two streams at the same time,
\* each stream with rows read on its own handle.
C25_Witness ==
  /\ Polling("t1", "s1") /\ Polling("t2", "s2")
  /\ stream["s1"].held /\ stream["s2"].held
  /\ stream["s1"].table # stream["s2"].table
  /\ Tab("s1").cursor >= 1 /\ Tab("s2").cursor >= 1

\* The error kinds the specification lists for open: InvalidParameter,
\* FileNotFound, ReadError, InvalidFormat, Decompression, Decryption,
\* MemoryError, NotImplemented, KeyringError, UnknownError.
ListedOpenErrors ==
  {"InvalidParam", "FileNotFound", "FileRead", "InvalidFormat", "Decompression",
   "Decryption", "Memory", "NotImplemented", "Keyring", "Library"}

\* C31: every error open_table returns is of one of the listed kinds.
C31_OpenErrorKinds ==
  (call.fn = "open_table" /\ call.result.tag = "err") =>
    call.result.err.kind \in ListedOpenErrors

\* C32: a table handle that ibd_open_table stored and whose table info or
\* column info could not be read has been closed exactly once, by
\* open_table itself, and stays so; that open_table returned an error and
\* no table object, so no destructor closes the handle again.
C32_PartialOpenClosedOnce ==
  /\ \A h \in 1..Len(tables) :
       tables[h].owner = "partial" =>
         (tables[h].closes = 1 /\ ~tables[h].lateClose)
  /\ \A t \in Threads : \A h \in TablesOf(t) : tables[h].owner # "partial"
  /\ (call.fn = "open_table" /\ call.result.tag = "err") =>
       /\ call.result.table = 0
       /\ \A h \in 1..Len(tables) :
            (tables[h].owner # "partial" /\ tables[h].closes = 0) =>
              \E t \in Threads : h \in TablesOf(t)
  /\ (call.fn = "open_table" /\ call.result.tag = "table") =>
       tables[call.result.table].owner # "partial"

\* C32 witness: ibd_get_column_info failed on the second column of a table
\* that ibd_open_table had opened; the handle is closed once and open_table
\* returned the error.
C32_Witness ==
  /\ call.fn = "open_table"
  /\ call.ans.open = 0 /\ call.ans.info = 0 /\ Len(call.ans.cols) = 2
  /\ call.result.tag = "err"
  /\ call.result.err.kind = "FileRead"
  /\ Len(tables) >= 1
  /\ tables[Len(tables)].owner = "partial"
  /\ tables[Len(tables)].closes = 1

\* C32 witness, second case: ibd_get_table_info failed.
C32_InfoFailureReached ==
  /\ call.fn = "open_table"
  /\ call.ans.info = -5
  /\ call.result.err.kind = "InvalidFormat"
  /\ tables[Len(tables)].owner = "partial"
  /\ tables[Len(tables)].closes = 1

\* The errors the row reader binding may report for a native outcome of a
\* row read: those of next_row, and those of get on a cell of the row.
ReaderErrors(o) ==
  {r.err : r \in {x \in next_row(o) : x.tag = "err"}}
    \cup UNION {{g.err : g \in {x \in IbdRow_get(i, column_count(Catalog), o.cellCode) :
                                  x.tag = "err"}} :
                i \in 0..(column_count(Catalog) - 1)}

\* C33: the error a failed pull delivers to the query engine is
\* DataFusionError::External holding the error that next_row or get
\* returned for the failing call, with its kind and its message; a pull
\* during which neither returned an error delivers none.
C33_ErrorVerbatim ==
  /\ lastPull.result.kind = "err" =>
       /\ lastPull.reported # NoErr
       /\ lastPull.reported \in ReaderErrors(lastPull.o)
       /\ lastPull.delivered.variant = "External"
       /\ lastPull.delivered.source = lastPull.reported
  /\ lastPull.result.kind # "err" =>
       (lastPull.reported = NoErr /\ lastPull.delivered = NoEngineError)

\* C33 witness: ibd_read_row returned ErrorInvalidFormat; the pull delivers
\* InvalidFormat with the message of next_row.
C33_Witness ==
  /\ lastPull.result.kind = "err"
  /\ lastPull.o.code = -5
  /\ lastPull.delivered = External(Err("InvalidFormat", "Failed to read row"))

\* C33 witness, second case: ibd_row_get_column failed on a cell.
C33_CellErrorReached ==
  /\ lastPull.result.kind = "err"
  /\ lastPull.o.cellCode = -3
  /\ lastPull.delivered = External(Err("FileRead", "Failed to get column value"))

\* The errors IbdStreamState::try_new may return for a native answer.
StartErrors(ans) ==
  IF ans.readerNull
    THEN {Err("Memory", "")}
    ELSE {t.err : t \in {x \in open_table_result(ans) : x.tag = "err"}}

\* The reader contexts and table handles in use: those a stream's state
\* holds.
ReaderInUse(r) == \E s \in Streams : stream[s].held /\ stream[s].reader = r

\* C34: an execute whose open fails returns the error of the open (boxed as
\* DataFusionError::External) and produces no stream; the step makes at most
\* one call of ibd_open_table and creates at most one reader context; and
\* afterwards every reader context that no stream holds is destroyed and
\* every table handle that no stream holds is closed.
C34_FailedExecute ==
  /\ [][\A s \in Streams :
          (stream[s].exists = "none" /\ stream'[s].exists = "failed") =>
            /\ nopen' <= nopen + 1
            /\ Len(readers') <= Len(readers) + 1
            /\ Len(tables') <= Len(tables) + 1]_vars
  /\ [](\A s \in Streams :
          stream[s].exists = "failed" =>
            /\ stream[s].returned.variant = "External"
            /\ stream[s].returned.source \in StartErrors(stream[s].native)
            /\ ~stream[s].held
            /\ stream[s].table = 0
            /\ out[s] = <<>>
            /\ ~ENABLED Pull(s))
  /\ [](\A r \in 1..Len(readers) : ~ReaderInUse(r) => readers[r].destroyed)
  /\ [](\A h \in 1..Len(tables) : ~HeldByStream(h) => tables[h].closes = 1)

\* C34 witness: the execute of s1 failed on ibd_get_table_info after the
\* native open had succeeded, while s2 runs; one more ibd_open_table call
\* was made for s1, its reader context is destroyed and its handle closed.
C34_Witness ==
  /\ stream["s1"].exists = "failed"
  /\ stream["s1"].native.info = -5
  /\ stream["s1"].returned =
       External(Err("InvalidFormat", "Failed to read table info"))
  /\ stream["s2"].exists = "open" /\ stream["s2"].held
  /\ nopen = 3
  /\ Len(readers) = 3 /\ readers[3].destroyed
  /\ Len(tables) = 3 /\ tables[3].owner = "partial" /\ tables[3].closes = 1

\* C34 witness, second case: ibd_open_table itself failed.
C34_OpenFailureReached ==
  /\ stream["s1"].exists = "failed"
  /\ stream["s1"].native.open = -2
  /\ stream["s1"].returned.source.kind = "FileNotFound"
  /\ Len(tables) = 1

\* C35: ibd_close_table never runs on a handle whose reader context was
\* already destroyed, and no reader context is destroyed while a handle it
\* opened is still open.
C35_CloseBeforeDestroy ==
  \A h \in 1..Len(tables) :
    /\ ~tables[h].lateClose
    /\ readers[tables[h].reader].destroyed => tables[h].closes >= 1

\* C36: every row handle next_row returned was freed once, before the next
\* ibd_read_row on the table and before ibd_close_table, also when get
\* failed on the row; a table never has two live row handles.
C36_RowFreedOnce ==
  \A h \in 1..Len(tables) :
    /\ tables[h].handles = tables[h].cursor
    /\ tables[h].frees = tables[h].handles
    /\ tables[h].live = 0
    /\ tables[h].maxLive <= 1
    /\ tables[h].liveAtRead = 0
    /\ tables[h].liveAtClose = 0

\* C36 witness: a stream read two rows, then get failed on the third; the
\* three row handles are freed and the table is closed.
C36_Witness ==
  /\ Started("s1")
  /\ Tab("s1").seen = "err"
  /\ lastPull.o.cellCode = -3
  /\ Tab("s1").handles = 3
  /\ Tab("s1").frees = 3
  /\ Tab("s1").maxLive = 1
  /\ Tab("s1").closes = 1

\* The variant of ColumnValue a numeric builder takes as it is.
OwnTag(builder) == builder

\* C37: push appends one entry for every cell that get returned, whatever
\* the builder and the cell; in a numeric builder, a cell that is not Null
\* and whose variant is neither the builder's own nor Formatted is appended
\* as a null entry.
C37_MismatchIsNull ==
  /\ [](call.fn = "push" /\ call.got = "value" =>
          /\ call.len >= 1
          /\ call.entry.some \in BOOLEAN
          /\ (/\ call.builder \in {"Int", "UInt", "Float"}
              /\ call.value.tag \notin {"Null", "Formatted", OwnTag(call.builder)}) =>
               call.entry = NoneEntry)
  /\ [][(call'.fn = "push" /\ call'.got = "value") => call'.len = call.len + 1]_vars

\* C37 witness: a UInt cell 12 read into an Int column was appended as a
\* null entry, the second entry of the column.
C37_Witness ==
  /\ call.fn = "push"
  /\ call.got = "value"
  /\ call.builder = "Int"
  /\ call.value = ColumnValue("UInt", 12, "")
  /\ call.entry = NoneEntry
  /\ call.len = 2

\* C37 witness, second case: an Int cell in a Float column.
C37_IntInFloatReached ==
  /\ call.fn = "push"
  /\ call.builder = "Float"
  /\ call.value = ColumnValue("Int", 12, "")
  /\ call.entry = NoneEntry
  /\ call.len >= 1

\* C38: for every type code a column may be declared with, the array its
\* builder finishes has the type of the column's field in the schema, and
\* RecordBatch::try_new accepts the array for the field.
C38_ArrayTypeIsFieldType ==
  /\ call.fn \in {"with_capacity", "push", "finish"} =>
       finish(call.builder) = call.data_type
  /\ call.fn = "finish" =>
       /\ call.array_type = call.data_type
       /\ call.batch = BatchOk

\* C38 witness: a column declared Double (4), read and finished: a Float64
\* array for a Float64 field.
C38_Witness ==
  /\ call.fn = "finish"
  /\ call.declared = 4
  /\ call.len >= 1
  /\ call.array_type = "Float64"
  /\ call.data_type = "Float64"
  /\ call.batch = BatchOk

\* C39: a stream of a scan with the empty projection to which the row
\* reader has returned N rows and then EndOfData has failed in no pull and
\* has delivered batches whose row counts sum to N.
C39_EmptyProjectionCounts ==
  \A s \in Streams :
    (/\ Started(s)
     /\ stream[s].projection = SomeProjection(<<>>)
     /\ Tab(s).seen = "eod") =>
      /\ ~ErrAt(s)
      /\ Len(Flat(out[s])) = Tab(s).cursor

====
